---- MODULE Spec2Model ----
(***************************************************************************)
(* State-machine model of the E-Search crawl orchestrator:                 *)
(*   backend/scrapers/base.py     BaseScraper.run / save_listing /         *)
(*                                location cache                           *)
(*   backend/scrapers/manager.py  ScraperManager.scrape_site               *)
(*   backend/scrapers/sites/dd.py DDScraper._ensure_crawler / run          *)
(*   backend/scrapers/sites/sft.py SFTScraper.run                          *)
(*   backend/scrapers/sites/*.py  normalize_listing (tier)                 *)
(*   backend/scrapers/crawlers/static.py, stealth.py  rate limit, retries, *)
(*                                browser session                          *)
(*                                                                         *)
(* Text is modelled at word granularity: a string is a record              *)
(* [w |-> sequence of lower-case words, cs |-> letter case of the text].   *)
(* str.lower() keeps the words and sets cs to "lower"; startswith is the   *)
(* word-prefix test and the substring test `a in b` is the contiguous      *)
(* word-subsequence test.  A comma is the word ",".                        *)
(*                                                                         *)
(* The SQLAlchemy session (autoflush=False, api/database.py:181) is        *)
(* modelled by three pieces of state: db (the committed rows, what any     *)
(* other connection reads), tx (the rows as seen inside the session's      *)
(* open transaction, i.e. committed rows plus flushed changes) and pend    *)
(* (Schedule objects added to the session but not flushed yet).  A failed  *)
(* flush rolls the transaction back and leaves the session unusable until  *)
(* Session.rollback() is called (sessOk = FALSE).                          *)
(*                                                                         *)
(* Modelling decisions:                                                    *)
(*  - the environment may fail a flush or commit (disk full, locked        *)
(*    database) at most MaxDbFaults times; a flush also fails by itself    *)
(*    when a pending Schedule has no location_id (NOT NULL);               *)
(*  - a failed commit behaves as its failed flush stage;                   *)
(*  - the Location query of _load_location_cache returns rows in id order; *)
(*  - tags and the profile fields other than the name are left out; the    *)
(*    tier is modelled only in SpecTier;                                   *)
(*  - pages hold at most MaxItems items, so the commit of line 731, which  *)
(*    needs COMMIT_BATCH_SIZE saved profiles, is reached only in SpecLong; *)
(*    every other commit is the one of _flush_pending_commits;             *)
(*  - in Spec, SpecLong, SpecStop and SpecLoc a fetch is one step that     *)
(*    returns or raises; SpecFetch models the fetcher inside the run: the  *)
(*    clock counts hundredths of a second, time passes only in the sleeps  *)
(*    and the requests of the fetcher, and asyncio.sleep(d) takes d;       *)
(*  - SpecPar adds the session operations of a second run gathered by      *)
(*    scrape_all; SpecStealth models the browser session of the stealth    *)
(*    crawler inside a run of DD;                                          *)
(*  - SpecRevisit is SpecLoc over pages on which a location string comes   *)
(*    back; SpecNorm and SpecDate apply the field normalisers and          *)
(*    parse_dd_date, as pure functions, to enumerated texts and dates;     *)
(*  - no stop signal exists in the source; SpecStop adds one as a flag of  *)
(*    the environment that nothing reads.                                  *)
(***************************************************************************)
EXTENDS Integers, Sequences, FiniteSets, Bags, TLC

\* ------------------------------------------------------------------ bounds
\* number of consecutive runs (scrape_site calls) in one behaviour
MaxRuns == 2
\* number of database operations the environment may fail in one behaviour
MaxDbFaults == 1
\* number of profile fetches the environment may fail in one run
MaxFetchFails == 1
\* longest schedule page (number of ScheduleItems)
MaxItems == 2
\* number of profiles of the long schedule page
MaxProfiles == 11
\* number of requests the environment may fail in one run
MaxTransient == 3
\* faults of the browser and of the site in a run of the stealth crawler
MaxSessionFaults == 3

\* ------------------------------------------------------- program constants
\* BaseScraper.COMMIT_BATCH_SIZE
COMMIT_BATCH_SIZE == 10
\* ScrapeResult.to_dict: error_details[:10]
ErrorDetailsEmitted == 10

\* the absent text (Python None / empty string)
NoText == [w |-> <<>>, cs |-> "none"]

\* ------------------------------------------------------------------ text
Lower(s) == [s EXCEPT !.cs = "lower"]

Txt(ws, c) == [w |-> ws, cs |-> c]

IsPrefix(a, b) == Len(a) <= Len(b) /\ SubSeq(b, 1, Len(a)) = a

\* Python `a in b` for strings, on word sequences
Contains(b, a) ==
    \E i \in 0..(Len(b) - Len(a)) : SubSeq(b, i + 1, i + Len(a)) = a

Drop(ws, n) == SubSeq(ws, n + 1, Len(ws))

\* scrapers/config.py KNOWN_TOWNS (five of its towns)
KNOWN_TOWNS ==
    { Txt(<<"downtown">>, "title"),
      Txt(<<"scarborough">>, "title"),
      Txt(<<"north", "york">>, "title"),
      Txt(<<"vaughan">>, "title"),
      Txt(<<"oakville">>, "title") }

UnknownLit == Txt(<<"unknown">>, "lower")

\* a parser that returns the town as it is written in the text
ParseTownAsWritten(s) ==
    LET hits == { t \in KNOWN_TOWNS : IsPrefix(Lower(t).w, Lower(s).w) }
    IN  IF hits # {}
        THEN LET town == CHOOSE t \in hits :
                             \A u \in hits : Len(u.w) <= Len(t.w)
                 rest == Drop(s.w, Len(town.w))
             IN  <<Txt(town.w, s.cs), IF rest # <<>> THEN Txt(rest, s.cs) ELSE UnknownLit>>
        ELSE <<s, UnknownLit>>

\* BaseScraper._parse_sft_location_fallback: longest known town that
\* prefixes the lower-cased text; the rest is the detail.
parse_sft_location_fallback(s) ==
    LET hits == { t \in KNOWN_TOWNS : IsPrefix(Lower(t).w, Lower(s).w) }
    IN  IF hits # {}
        THEN LET town == CHOOSE t \in hits :
                             \A u \in hits : Len(u.w) <= Len(t.w)
                 rest == Drop(s.w, Len(town.w))
             IN  <<town, IF rest # <<>> THEN Txt(rest, s.cs) ELSE UnknownLit>>
        ELSE <<s, UnknownLit>>

\* position of the first comma word, 0 when there is none
CommaAt(ws) ==
    IF \E i \in 1..Len(ws) : ws[i] = ","
    THEN CHOOSE i \in 1..Len(ws) : ws[i] = "," /\ \A j \in 1..(i - 1) : ws[j] # ","
    ELSE 0

\* save_listing lines 576-611: "town, location" when the text has a comma,
\* the fallback parser otherwise (the relative import of parse_sft_location
\* at line 591 raises ImportError and is ignored)
ParseLocation(s) ==
    LET c == CommaAt(s.w)
    IN  IF c > 0
        THEN <<Txt(SubSeq(s.w, 1, c - 1), s.cs), Txt(Drop(s.w, c), s.cs)>>
        ELSE parse_sft_location_fallback(s)

IsParen(word) == word \in {"(airport)"}

IsNumber(word) == word \in {"427"}

\* lines 633-634: str.replace of 'Trafalger' and of 'trafalger'; a detail
\* written in capitals ('TRAFALGER') is left as it is
FixTypo(word, cs) ==
    IF word = "trafalger" /\ cs \in {"title", "lower"} THEN "trafalgar" ELSE word

\* lines 646-647: the word AND becomes &
FixAnd(word) == IF word = "and" THEN "&" ELSE word

RECURSIVE JoinHwy(_)
\* re.sub(r'HWY\s*(\d+)', r'HWY-\1'): "hwy 427" and "hwy427" -> "hwy-427"
JoinHwy(ws) ==
    IF ws = <<>> THEN <<>>
    ELSE IF Len(ws) >= 2 /\ ws[1] = "hwy" /\ IsNumber(ws[2])
         THEN <<"hwy-427">> \o JoinHwy(Drop(ws, 2))
         ELSE IF ws[1] = "hwy427"
              THEN <<"hwy-427">> \o JoinHwy(Drop(ws, 1))
              ELSE <<ws[1]>> \o JoinHwy(Drop(ws, 1))

\* save_listing lines 613-654: normalized_location_detail, None when the
\* detail is empty or "unknown" (NoText)
NormalizeDetail(d) ==
    IF d.w = <<>> \/ Lower(d) = UnknownLit
    THEN NoText
    ELSE LET a == IF IsParen(d.w[Len(d.w)])
                  THEN SubSeq(d.w, 1, Len(d.w) - 1) ELSE d.w
             b == IF Len(a) > 1 /\ a[1] = "near" THEN Drop(a, 1) ELSE a
             c == JoinHwy(b)
             e == [i \in 1..Len(c) |-> FixAnd(FixTypo(c[i], d.cs))]
         IN  Txt(e, "title")

\* ------------------------------------------------------- location cache
\* The cache is a Python dict: a sequence of entries [k, id] in insertion
\* order; k = <<town_lower, location_lower>> as word sequences, the marker
\* keys are <<"_town_only">> and <<"_default">>.  The value is the cached
\* Location object, of which only the id is read (line 702).
NoId == 0

HasKey(cache, k) == \E i \in 1..Len(cache) : cache[i].k = k

Get(cache, k) ==
    IF HasKey(cache, k)
    THEN cache[CHOOSE i \in 1..Len(cache) : cache[i].k = k].id
    ELSE NoId

\* dict assignment: an existing key keeps its position
Put(cache, k, id) ==
    IF HasKey(cache, k)
    THEN [i \in 1..Len(cache) |-> IF cache[i].k = k THEN [k |-> k, id |-> id] ELSE cache[i]]
    ELSE Append(cache, [k |-> k, id |-> id])

TownOnly == <<"_town_only">>
DefaultKey == << <<"_default">>, <<>> >>

RECURSIVE SortById(_)
\* rows of a table in primary-key order
SortById(S) ==
    IF S = {} THEN <<>>
    ELSE LET m == CHOOSE r \in S : \A q \in S : r.id <= q.id
         IN  <<m>> \o SortById(S \ {m})

\* one iteration of the loop of _load_location_cache (lines 246-260); the
\* test `town_lower not in self._location_cache` at line 255 compares a str
\* with tuple keys and is always true
CacheOne(cache, loc) ==
    LET t  == Lower(loc.town).w
        d  == Lower(loc.detail).w
        c1 == Put(cache, <<t, d>>, loc.id)
        c2 == IF t # <<>> THEN Put(c1, <<TownOnly, t>>, loc.id) ELSE c1
    IN  IF loc.dflt THEN Put(c2, DefaultKey, loc.id) ELSE c2

RECURSIVE CacheAll(_, _)
CacheAll(cache, rows) ==
    IF rows = <<>> THEN cache
    ELSE CacheAll(CacheOne(cache, Head(rows)), Tail(rows))

\* BaseScraper._load_location_cache: the rows come back in id order
load_location_cache(cache, loaded, locs) ==
    IF loaded THEN cache ELSE CacheAll(cache, SortById(locs))

\* Strategy 5 of _find_location_in_cache: first entry, in dict order, whose
\* key[0] contains the town or is contained in it
PartialTown(cache, t) ==
    LET hit(i) == cache[i].k[1] # <<>>
                  /\ (Contains(cache[i].k[1], t) \/ Contains(t, cache[i].k[1]))
    IN  IF \E i \in 1..Len(cache) : hit(i)
        THEN cache[CHOOSE i \in 1..Len(cache) :
                       hit(i) /\ \A j \in 1..(i - 1) : ~hit(j)].id
        ELSE NoId

\* a lookup that tries the town-only key before the exact keys
FindTownFirst(cache, town, detail, norm) ==
    LET t == Lower(town).w
        d == Lower(detail).w
        n == Lower(norm).w
    IN  IF t # <<>> /\ HasKey(cache, <<TownOnly, t>>) THEN Get(cache, <<TownOnly, t>>)
        ELSE IF HasKey(cache, <<t, d>>) THEN Get(cache, <<t, d>>)
        ELSE IF n # <<>> /\ n # d /\ HasKey(cache, <<t, n>>) THEN Get(cache, <<t, n>>)
        ELSE IF t # <<>> /\ HasKey(cache, <<t, <<"unknown">> >>)
             THEN Get(cache, <<t, <<"unknown">> >>)
        ELSE IF t # <<>> THEN PartialTown(cache, t)
        ELSE NoId

\* BaseScraper._find_location_in_cache; norm is NoText or a text
find_location_in_cache(cache, town, detail, norm) ==
    LET t == Lower(town).w
        d == Lower(detail).w
        n == Lower(norm).w
    IN  IF HasKey(cache, <<t, d>>) THEN Get(cache, <<t, d>>)
        ELSE IF n # <<>> /\ n # d /\ HasKey(cache, <<t, n>>) THEN Get(cache, <<t, n>>)
        ELSE IF t # <<>> /\ HasKey(cache, <<t, <<"unknown">> >>)
             THEN Get(cache, <<t, <<"unknown">> >>)
        ELSE IF t # <<>> /\ HasKey(cache, <<TownOnly, t>>) THEN Get(cache, <<TownOnly, t>>)
        ELSE IF t # <<>> THEN PartialTown(cache, t)
        ELSE NoId

\* BaseScraper._get_default_location
get_default_location(cache) == Get(cache, DefaultKey)

\* ------------------------------------------------------------ the Store
\* api/database.py: rows of sources (src: the Source row of this site
\* exists), listings [id, name], locations [id, town, detail, dflt] and
\* schedules, a bag of [lid, day, loc] (Schedule.listing_id, day_of_week,
\* location_id; Schedule.location_id is NOT NULL, line 119).
EmptyStore == [src |-> FALSE, listings |-> {}, locs |-> {}, scheds |-> EmptyBag]

\* scripts/seed_locations.py: two of the rows it inserts, in its order, a
\* Downtown place (line 30) and the default Location (line 39)
SeedLocs ==
    { [id |-> 1, town |-> Txt(<<"downtown">>, "title"),
       detail |-> Txt(<<"university", "&", "queen">>, "title"), dflt |-> FALSE],
      [id |-> 2, town |-> Txt(<<"unknown">>, "title"), detail |-> UnknownLit, dflt |-> TRUE] }

SeededStore == [src |-> TRUE, listings |-> {}, locs |-> SeedLocs, scheds |-> EmptyBag]

\* INTEGER PRIMARY KEY of SQLite: largest rowid of the table plus one
NextId(rows) ==
    IF rows = {} THEN 1
    ELSE (CHOOSE i \in {r.id : r \in rows} : \A r \in rows : r.id <= i) + 1

\* the Schedule rows of one listing, as a bag
RowsOf(store, lid) ==
    LET keep == {r \in DOMAIN store.scheds : r.lid = lid}
    IN  [r \in keep |-> store.scheds[r]]

\* query(Schedule).filter_by(listing_id=...).delete() (lines 552-554)
DeleteSchedules(store, lid) ==
    LET keep == {r \in DOMAIN store.scheds : r.lid # lid}
    IN  [store EXCEPT !.scheds = [r \in keep |-> store.scheds[r]]]

\* Session.flush() can succeed iff no pending Schedule violates NOT NULL
Flushable(p) == \A r \in DOMAIN p : r.loc # NoId

\* rows of the transaction after a successful flush of the pending objects
Flushed(t, p) == [t EXCEPT !.scheds = t.scheds (+) p]

\* --------------------------------------------------------------- the site
\* scrapers/config.py SITES (two implemented sites, one that is configured
\* only) and scrapers/manager.py SCRAPER_REGISTRY
SITES == {"sft", "discreet", "secret"}
SCRAPER_REGISTRY == {"sft", "discreet"}

\* the site keys scrape_site is called with ("bogus" is not configured)
SiteKeys == SITES \cup {"bogus"}

\* SiteConfig.short_name
short_name(key) == IF key = "sft" THEN "SFT" ELSE IF key = "discreet" THEN "DD" ELSE "SECRET"

Urls == {"u1", "u2", "u3"}

\* display name on the schedule page; two profile references share a name
NameOf(url) == IF url = "u2" THEN "bella" ELSE IF url \in Urls THEN "anna" ELSE url

Item(u, d, l) == [url |-> u, day |-> d, loc |-> l]

\* ScheduleItems an SFT schedule page is built from (sft.py 135-206): the
\* location is the text of the header above the entry; Scarborough is a
\* known town that is not seeded
ItemsSFT ==
    { Item("u1", "Monday", Txt(<<"downtown", "queen">>, "upper")),
      Item("u1", "Tuesday", Txt(<<"scarborough">>, "upper")),
      Item("u2", "Monday", Txt(<<"south", "scarborough">>, "upper")) }

\* ScheduleItems of a DD schedule page (dd.py 258-388): the location is
\* f"{town}, {location}".  Both sites drop outcall entries while the page
\* is parsed, so no ScheduleItem is outcall.
ItemsDD ==
    { Item("u1", "Monday", Txt(<<"downtown", ",", "queen">>, "title")),
      Item("u2", "Monday", Txt(<<"scarborough", ",", "unknown">>, "title")),
      Item("u3", "Tuesday", Txt(<<"downtown", ",", "queen">>, "title")) }

SeqsUpTo(S, n) == UNION { [1..k -> S] : k \in 0..n }

\* a schedule page of MaxProfiles profiles, one item each
LongPage ==
    [i \in 1..MaxProfiles |->
        Item("p" \o ToString(i), "Monday", Txt(<<"downtown", "queen">>, "upper"))]

\* the schedule pages a site can serve
Pages(key) ==
    IF key = "sft" THEN SeqsUpTo(ItemsSFT, MaxItems)
    ELSE IF key = "discreet" THEN SeqsUpTo(ItemsDD, MaxItems)
    ELSE {<<>>}

RECURSIVE ItemsFor(_, _)
\* profiles_schedules[profile_url] of run (lines 763-767)
ItemsFor(items, url) ==
    IF items = <<>> THEN <<>>
    ELSE IF Head(items).url = url
         THEN <<Head(items)>> \o ItemsFor(Tail(items), url)
         ELSE ItemsFor(Tail(items), url)

RECURSIVE Dedup(_, _)
Dedup(items, seen) ==
    IF items = <<>> THEN <<>>
    ELSE IF Head(items).url \in seen
         THEN Dedup(Tail(items), seen)
         ELSE <<Head(items).url>> \o Dedup(Tail(items), seen \cup {Head(items).url})

\* a grouping that keeps one entry per schedule item
UniqueProfilesPerItem(items) == [i \in 1..Len(items) |-> items[i].url]

\* unique_profiles of run (line 769): dict keys, in insertion order
UniqueProfiles(items) == Dedup(items, {})

\* scrape_profile: SFT profile pages carry no name, DD pages repeat it
ProfileData(key, url) == [name |-> IF key = "discreet" THEN NameOf(url) ELSE ""]

\* BaseScraper.normalize_listing (lines 406-455), name and schedules
normalize_listing(first_item, profile_data, all_items) ==
    [name |-> IF profile_data.name # "" THEN profile_data.name ELSE NameOf(first_item.url),
     url  |-> first_item.url,
     schedules |-> [i \in 1..Len(all_items) |->
                       [day |-> all_items[i].day, loc |-> all_items[i].loc]]]

\* ScrapeResult (lines 136-146)
NewResult == [total |-> 0, new |-> 0, updated |-> 0, errors |-> 0, details |-> <<>>]

\* ScrapeResult.to_dict (lines 158-170): the counters, and the first
\* ErrorDetailsEmitted error details
to_dict(r) ==
    [r EXCEPT !.details =
        SubSeq(@, 1, IF Len(@) < ErrorDetailsEmitted THEN Len(@) ELSE ErrorDetailsEmitted)]

\* the ScrapeResult scrape_site builds itself (lines 93-99 and 108-114)
FailResult == [total |-> 0, new |-> 0, updated |-> 0, errors |-> 1, details |-> <<"error">>]

NoListing == [name |-> "", url |-> "", schedules |-> <<>>]
NoCur == [lid |-> NoId, is_new |-> FALSE, had |-> FALSE]

\* ------------------------------------------------------------------ state
VARIABLES
    site_key,               \* argument of scrape_site
    mpc,                    \* scrape_site: "idle", "running", "returned", "raised"
    mresult,                \* the ScrapeResult scrape_site returned
    runNo,                  \* number of scrape_site calls made
    pc,                     \* run(): "idle", "schedule", "profile", "save", "sched", "done", "raised"
    result,                 \* self.result
    pending_commits,        \* self._pending_commits
    location_cache,         \* self._location_cache
    location_cache_loaded,  \* self._location_cache_loaded
    crawler_initialized,    \* DDScraper._crawler_initialized
    browser,                \* StealthCrawler session: "closed" or "open"
    schedule_items,         \* run(): schedule_items
    unique_profiles,        \* run(): unique_profiles
    idx,                    \* run(): position in unique_profiles
    listing,                \* run(): the ScrapedListing being saved
    cur,                    \* save_listing: db_listing.id, is_new, old rows existed
    sidx,                   \* save_listing: position in listing.schedules
    db,                     \* committed rows
    tx,                     \* rows inside the session's transaction
    pend,                   \* pending (unflushed) Schedule objects
    sessOk,                 \* the session accepts SQL
    dbFaults,               \* database faults injected so far
    fetchLog,               \* history: profile references fetched in this run
    fetchFailed,            \* history: profile references whose fetch failed
    faulted,                \* history: profiles whose save met an injected fault ("commit": the final commit did)
    saveFailed,             \* history: profiles whose save_listing raised
    saves,                  \* history: url -> [lid, name, rows, k, is_new, had] of each save that returned
    built,                  \* history: Schedule rows built by the save in progress
    justSaved,              \* history: the last step was a save_listing that returned
    cause,                  \* history: what made run() raise
    startDb,                \* history: committed rows when the run started
    page,                   \* environment: the schedule page the site serves now
    changed,                \* history: the site changed since the previous run
    clean,                  \* history: no fetch failure, database fault or raise so far
    stop,                   \* environment: the stop signal has been raised for this run
    profile_data,           \* environment: what the profile page yields (its tier)
    now,                    \* environment: time.time(), in hundredths of a second
    last_request_time,      \* crawler._last_request_time
    fpc,                    \* crawler.fetch: "idle", "attempt", "returned" or "raised"
    attempt,                \* crawler.fetch: the loop variable
    waits,                  \* history: the backoff sleeps of the fetch call in progress
    releases,               \* history: times at which _wait_for_rate_limit returned
    calls,                  \* history: [tries, waits, ok] of each fetch call that ended
    crawler                 \* the StealthCrawler: its handles, _request_count and the browser behind them

mgrVars == <<site_key, mpc, mresult, runNo, stop>>
crawlVars == <<crawler_initialized, browser>>
loopVars == <<schedule_items, unique_profiles>>
cacheVars == <<location_cache, location_cache_loaded>>
storeVars == <<db, tx, pend, sessOk>>
vars == <<site_key, mpc, mresult, runNo, pc, result, pending_commits, location_cache,
          location_cache_loaded, crawler_initialized, browser, schedule_items,
          unique_profiles, idx, listing, cur, sidx, db, tx, pend, sessOk, dbFaults,
          fetchLog, fetchFailed, faulted, saveFailed, saves, built, justSaved, cause,
          startDb, page, changed, clean, stop, profile_data, now, last_request_time,
          fpc, attempt, waits, releases, calls, crawler>>
fetcherVars == <<now, last_request_time, fpc, attempt, waits, releases, calls, crawler>>
envVars == <<page, changed, profile_data, fetcherVars>>

\* time.time() when the crawler is constructed
Epoch == 1000

\* Python None as a tier
NoTier == "none"

\* no profile page has been read
NoData == [tier |-> NoTier]

\* StealthCrawler.__init__ (stealth.py 50-55): no driver, browser, context
\* or page, no request counted.  `connected` is the environment's side of
\* the handles: the browser behind _browser is connected and its context
\* is alive.  `orphan`, `served`, `inCall`, `staleNav`, `launchFailed`,
\* `closed` and `faults` are history: browser resources are open with no
\* handle of the crawler referring to them; the fetch calls the current
\* session navigated for; it navigated for the call in progress; a
\* navigation was made on a page of a session torn down earlier; the last
\* error of the crawler came from a launch; the finally block of run has
\* run; the faults the environment injected.
NewSession ==
    [playwright |-> FALSE, browser |-> FALSE, context |-> FALSE, page |-> "none",
     request_count |-> 0, connected |-> FALSE, orphan |-> FALSE, served |-> 0,
     inCall |-> FALSE, staleNav |-> FALSE, launchFailed |-> FALSE, closed |-> FALSE,
     faults |-> 0]

\* StaticCrawler.__init__ / StealthCrawler.__init__: no request made yet
NewCrawler ==
    /\ now = Epoch /\ last_request_time = 0
    /\ fpc = "idle" /\ attempt = 0 /\ waits = <<>>
    /\ releases = <<>> /\ calls = <<>>
    /\ crawler = NewSession

\* a fresh database, or one seeded with the site's Source and Locations
Init ==
    /\ site_key \in SiteKeys
    /\ db \in {EmptyStore, SeededStore}
    /\ mpc = "idle" /\ mresult = NewResult /\ runNo = 0
    /\ pc = "idle" /\ result = NewResult /\ pending_commits = 0
    /\ location_cache = <<>> /\ location_cache_loaded = FALSE
    /\ crawler_initialized = FALSE /\ browser = "closed"
    /\ schedule_items = <<>> /\ unique_profiles = <<>> /\ idx = 1
    /\ listing = NoListing /\ cur = NoCur /\ sidx = 1
    /\ tx = db /\ pend = EmptyBag /\ sessOk = TRUE
    /\ dbFaults = 0 /\ fetchLog = <<>> /\ fetchFailed = {} /\ faulted = {}
    /\ saveFailed = {}
    /\ saves = <<>> /\ built = EmptyBag /\ justSaved = FALSE /\ cause = ""
    /\ startDb = db /\ clean = TRUE
    /\ page \in Pages(site_key) /\ changed = FALSE
    /\ stop = FALSE
    /\ profile_data = NoData /\ NewCrawler

\* ------------------------------------------------------------ scrape_site
\* ScraperManager.get_scraper (lines 61-76): is there a scraper class
get_scraper(key) == key \in SCRAPER_REGISTRY

\* config.get_site_config (lines 193-209): does the lookup return
get_site_config(key) == key \in SITES

\* ScraperManager.scrape_site up to the call of run() (lines 88-102), with
\* BaseScraper.__init__ (lines 197-210); every request has its own session
ScrapeSite ==
    /\ mpc \in {"idle", "returned", "raised"}
    /\ runNo < MaxRuns
    /\ runNo' = runNo + 1
    /\ justSaved' = FALSE
    /\ stop' = FALSE
    /\ UNCHANGED <<site_key, db, dbFaults, envVars, clean, loopVars, idx, listing, cur,
                   sidx, crawlVars, built>>
    /\ IF ~get_site_config(site_key)
       THEN \* line 88: ValueError, outside the try of scrape_site
            /\ mpc' = "raised"
            /\ mresult' = NewResult
            /\ UNCHANGED <<pc, result, pending_commits, cacheVars, tx, pend, sessOk,
                           fetchLog, fetchFailed, faulted, saveFailed, saves, cause, startDb>>
       ELSE IF ~get_scraper(site_key)
       THEN \* lines 91-99
            /\ mpc' = "returned"
            /\ mresult' = FailResult
            /\ UNCHANGED <<pc, result, pending_commits, cacheVars, tx, pend, sessOk,
                           fetchLog, fetchFailed, faulted, saveFailed, saves, cause, startDb>>
       ELSE /\ mpc' = "running"
            /\ pc' = "schedule"
            /\ result' = NewResult
            /\ pending_commits' = 0
            /\ location_cache' = <<>>
            /\ location_cache_loaded' = FALSE
            /\ tx' = db /\ pend' = EmptyBag /\ sessOk' = TRUE
            /\ fetchLog' = <<>> /\ fetchFailed' = {} /\ faulted' = {}
            /\ saveFailed' = {}
            /\ saves' = <<>> /\ cause' = "" /\ startDb' = db
            /\ mresult' = NewResult

\* -------------------------------------------------------------------- run
\* the finally blocks of DDScraper.run (dd.py 412-420) and SFTScraper.run
\* (sft.py 422-428): the crawler is closed
CloseCrawler == browser' = "closed" /\ crawler_initialized' = FALSE

\* the outer handler of run (lines 834-844): count, record, try to commit,
\* re-raise; the caller sets the store variables
RunExcept ==
    /\ result' = [result EXCEPT !.errors = @ + 1, !.details = Append(@, "run")]
    /\ pc' = "raised"
    /\ CloseCrawler

\* a per-profile handler that counts, records and re-raises
ProfileReraise(url) ==
    /\ result' = [result EXCEPT !.errors = @ + 1, !.details = Append(@, url)]
    /\ idx' = idx
    /\ pc' = "raised"

\* the per-profile handler of run (lines 812-820): count, record, go on
\* with the next profile
ProfileExcept(url) ==
    /\ result' = [result EXCEPT !.errors = @ + 1, !.details = Append(@, url)]
    /\ idx' = idx + 1
    /\ pc' = "profile"

\* Step 1 of run (lines 757-770) with scrape_schedule of the site
\* (dd.py 247-256 and _ensure_crawler 228-245, sft.py 125-133)
ScrapeSchedule ==
    /\ pc = "schedule"
    /\ justSaved' = FALSE
    /\ UNCHANGED <<mgrVars, pending_commits, cacheVars, listing, cur, sidx, storeVars,
                   dbFaults, fetchLog, fetchFailed, faulted, saveFailed, saves, built,
                   startDb, envVars, clean>>
    /\ \/ \* the browser cannot be initialised
          /\ site_key = "discreet"
          /\ cause' = "browser"
          /\ RunExcept
          /\ UNCHANGED <<loopVars, idx>>
       \/ \* the schedule page cannot be fetched or parsed
          /\ cause' = "schedule"
          /\ RunExcept
          /\ UNCHANGED <<loopVars, idx>>
       \/ /\ schedule_items' = page
          /\ result' = [result EXCEPT !.total = Len(page)]
          /\ unique_profiles' = UniqueProfiles(page)
          /\ idx' = 1
          /\ pc' = "profile"
          /\ crawler_initialized' = (site_key = "discreet")
          /\ browser' = IF site_key = "discreet" THEN "open" ELSE browser
          /\ UNCHANGED cause

\* the profile the loop of run is at
CurUrl == unique_profiles[idx]

\* lines 776-796: scrape_profile, then normalize_listing; the environment
\* fails at most `limit` fetches of a run
FetchProfileUpTo(limit) ==
    /\ pc = "profile"
    /\ idx <= Len(unique_profiles)
    /\ justSaved' = FALSE
    /\ fetchLog' = Append(fetchLog, CurUrl)
    /\ UNCHANGED <<mgrVars, pending_commits, cacheVars, crawlVars, loopVars, cur, sidx,
                   storeVars, dbFaults, faulted, saveFailed, saves, built, cause, startDb,
                   envVars>>
    /\ \/ \* the fetch raises after its retries
          /\ Cardinality(fetchFailed) < limit
          /\ fetchFailed' = fetchFailed \cup {CurUrl}
          /\ clean' = FALSE
          /\ ProfileExcept(CurUrl)
          /\ UNCHANGED listing
       \/ /\ listing' = normalize_listing(ItemsFor(schedule_items, CurUrl)[1],
                                          ProfileData(site_key, CurUrl),
                                          ItemsFor(schedule_items, CurUrl))
          /\ pc' = "save"
          /\ UNCHANGED <<result, idx, fetchFailed, clean>>

FetchProfile == FetchProfileUpTo(MaxFetchFails)

\* the listing row save_listing finds by name (lines 505-508)
Existing == {l \in tx.listings : l.name = listing.name}

\* save_listing lines 484-556: Source, Listing upsert, flush, delete of the
\* old Schedule rows
SaveBegin ==
    /\ pc = "save"
    /\ justSaved' = FALSE
    /\ UNCHANGED <<mgrVars, pending_commits, cacheVars, crawlVars, loopVars, listing,
                   db, fetchLog, fetchFailed, saves, cause, startDb, envVars>>
    /\ IF ~sessOk
       THEN \* the query raises PendingRollbackError
            /\ ProfileExcept(CurUrl)
            /\ saveFailed' = saveFailed \cup {CurUrl}
            /\ UNCHANGED <<cur, sidx, tx, pend, sessOk, dbFaults, faulted, built, clean>>
       ELSE \E fault \in BOOLEAN :
            LET is_new == Existing = {}
                lid == IF is_new THEN NextId(tx.listings)
                       ELSE (CHOOSE l \in Existing : TRUE).id
                t1 == [tx EXCEPT !.src = TRUE,
                                 !.listings = IF is_new
                                              THEN @ \cup {[id |-> lid, name |-> listing.name]}
                                              ELSE @]
                t2 == Flushed(t1, pend)
            IN  /\ fault => dbFaults < MaxDbFaults
                /\ IF fault \/ ~Flushable(pend)
                   THEN \* flush (line 502 or 546) fails: the session is dead
                        /\ tx' = db /\ pend' = EmptyBag /\ sessOk' = FALSE
                        /\ dbFaults' = IF fault THEN dbFaults + 1 ELSE dbFaults
                        /\ faulted' = IF fault THEN faulted \cup {CurUrl} ELSE faulted
                        /\ clean' = (clean /\ ~fault)
                        /\ ProfileExcept(CurUrl)
                        /\ saveFailed' = saveFailed \cup {CurUrl}
                        /\ UNCHANGED <<cur, sidx, built>>
                   ELSE /\ tx' = IF is_new THEN t2 ELSE DeleteSchedules(t2, lid)
                        /\ pend' = EmptyBag
                        /\ cur' = [lid |-> lid, is_new |-> is_new,
                                   had |-> RowsOf(t2, lid) # EmptyBag]
                        /\ sidx' = 1
                        /\ built' = EmptyBag
                        /\ pc' = "sched"
                        /\ UNCHANGED <<result, idx, sessOk, dbFaults, faulted, saveFailed,
                                       clean>>

\* the schedule_data the loop of save_listing is at, '' replaced by 'Unknown'
CurLoc ==
    LET l == listing.schedules[sidx].loc
    IN  IF l.w = <<>> THEN Txt(<<"unknown">>, "title") ELSE l

\* lines 564-567: 'OUTCALL' in location_str.upper()
IsOutcall(l) == \E i \in 1..Len(l.w) : l.w[i] = "outcall"

\* save_listing lines 576-665 for one location string: the parsed town and
\* detail, the loaded cache, the cached Location found (NoId: none) and
\* whether a Location is to be created
Resolve(cache, loaded, locs, sname, raw) ==
    LET town   == ParseLocation(raw)[1]
        detail == ParseLocation(raw)[2]
        c1     == load_location_cache(cache, loaded, locs)
        found  == find_location_in_cache(c1, town, detail, NormalizeDetail(detail))
    IN  [town |-> town, detail |-> detail, cache |-> c1, found |-> found,
         create |-> /\ found = NoId
                    /\ town.w # <<>> /\ detail.w # <<>>
                    /\ sname = "SFT"
                    /\ town \in KNOWN_TOWNS]

\* one iteration of the schedule loop of save_listing (lines 558-715)
SaveSchedule ==
    /\ pc = "sched"
    /\ sidx <= Len(listing.schedules)
    /\ justSaved' = FALSE
    /\ sidx' = sidx + 1
    /\ UNCHANGED <<mgrVars, pc, result, pending_commits, crawlVars, loopVars, idx, listing,
                   cur, db, fetchLog, fetchFailed, saveFailed, saves, cause, startDb,
                   envVars>>
    /\ IF IsOutcall(CurLoc)
       THEN UNCHANGED <<cacheVars, tx, pend, sessOk, dbFaults, faulted, built, clean>>
       ELSE \E fault \in BOOLEAN :
            LET res    == Resolve(location_cache, location_cache_loaded, tx.locs,
                                  short_name(site_key), CurLoc)
                town   == res.town
                detail == res.detail
                c1     == res.cache
                found  == res.found
                create == res.create
                newloc == [id |-> NextId(tx.locs), town |-> town, detail |-> detail,
                           dflt |-> FALSE]
                flushOk == ~fault /\ Flushable(pend)
                \* lines 677-683 when the flush succeeds
                tCreated == Flushed([tx EXCEPT !.locs = @ \cup {newloc}], pend)
                cCreated == Put(c1, <<Lower(town).w, Lower(detail).w>>, newloc.id)
                t2 == IF ~create THEN tx ELSE IF flushOk THEN tCreated ELSE db
                p2 == IF ~create THEN pend ELSE EmptyBag
                c2 == IF create /\ flushOk THEN cCreated ELSE c1
                location == IF create /\ flushOk THEN newloc.id
                            ELSE IF found # NoId THEN found
                            ELSE get_default_location(c2)
                row == [lid |-> cur.lid, day |-> listing.schedules[sidx].day,
                        loc |-> location]
            IN  /\ fault => (create /\ dbFaults < MaxDbFaults)
                /\ location_cache' = c2
                /\ location_cache_loaded' = TRUE
                /\ tx' = t2
                /\ pend' = p2 (+) SetToBag({row})
                /\ built' = built (+) SetToBag({row})
                \* line 687: Session.rollback() revives the session
                /\ UNCHANGED sessOk
                /\ dbFaults' = IF fault THEN dbFaults + 1 ELSE dbFaults
                /\ faulted' = IF fault THEN faulted \cup {CurUrl} ELSE faulted
                /\ clean' = (clean /\ ~fault)

\* number of schedule items of the listing that are not outcall
InCalls(l) ==
    Cardinality({i \in 1..Len(l.schedules) : ~IsOutcall(l.schedules[i].loc)})

\* the end of save_listing (lines 728-737) and the counting of run
\* (lines 799-806)
SaveEnd ==
    /\ pc = "sched"
    /\ sidx > Len(listing.schedules)
    /\ UNCHANGED <<mgrVars, cacheVars, crawlVars, loopVars, listing, cur, sidx,
                   fetchLog, fetchFailed, built, cause, startDb, envVars>>
    /\ \E fault \in BOOLEAN :
       /\ fault => dbFaults < MaxDbFaults
       /\ IF fault \/ ~Flushable(pend)
          THEN \* commit (line 731) or flush (line 735) fails
               /\ pending_commits' = pending_commits + 1
               /\ tx' = db /\ pend' = EmptyBag /\ sessOk' = FALSE
               /\ dbFaults' = IF fault THEN dbFaults + 1 ELSE dbFaults
               /\ faulted' = IF fault THEN faulted \cup {CurUrl} ELSE faulted
               /\ clean' = (clean /\ ~fault)
               /\ justSaved' = FALSE
               /\ ProfileExcept(CurUrl)
               /\ saveFailed' = saveFailed \cup {CurUrl}
               /\ UNCHANGED <<db, saves>>
          ELSE /\ tx' = Flushed(tx, pend)
               /\ pend' = EmptyBag
               /\ IF pending_commits + 1 >= COMMIT_BATCH_SIZE
                  THEN db' = Flushed(tx, pend) /\ pending_commits' = 0
                  ELSE UNCHANGED db /\ pending_commits' = pending_commits + 1
               /\ result' = IF cur.is_new THEN [result EXCEPT !.new = @ + 1]
                                         ELSE [result EXCEPT !.updated = @ + 1]
               /\ idx' = idx + 1
               /\ pc' = "profile"
               /\ saves' = (CurUrl :> [lid |-> cur.lid, name |-> listing.name,
                                      rows |-> built, k |-> InCalls(listing),
                                      is_new |-> cur.is_new, had |-> cur.had]) @@ saves
               /\ justSaved' = TRUE
               /\ UNCHANGED <<sessOk, dbFaults, faulted, saveFailed, clean>>

\* BaseScraper._flush_pending_commits at the end of the loop (line 823),
\* the return of run, its outer handler and the finally of the subclass
Finalize ==
    /\ pc = "profile"
    /\ idx > Len(unique_profiles)
    /\ justSaved' = FALSE
    /\ UNCHANGED <<mgrVars, cacheVars, loopVars, idx, listing, cur, sidx, fetchLog,
                   fetchFailed, saveFailed, saves, built, startDb, envVars>>
    /\ IF pending_commits = 0
       THEN /\ pc' = "done"
            /\ CloseCrawler
            /\ UNCHANGED <<result, pending_commits, storeVars, dbFaults, faulted, cause,
                           clean>>
       ELSE \E fault \in BOOLEAN :
            /\ fault => (sessOk /\ dbFaults < MaxDbFaults)
            /\ IF fault \/ ~sessOk \/ ~Flushable(pend)
               THEN \* commit raises, and raises again in the handler (841)
                    /\ tx' = db /\ pend' = EmptyBag /\ sessOk' = FALSE
                    /\ dbFaults' = IF fault THEN dbFaults + 1 ELSE dbFaults
                    /\ faulted' = IF fault THEN faulted \cup {"commit"} ELSE faulted
                    /\ clean' = (clean /\ ~fault)
                    /\ cause' = "commit"
                    /\ RunExcept
                    /\ UNCHANGED <<db, pending_commits>>
               ELSE /\ db' = Flushed(tx, pend)
                    /\ tx' = Flushed(tx, pend)
                    /\ pend' = EmptyBag
                    /\ pending_commits' = 0
                    /\ pc' = "done"
                    /\ CloseCrawler
                    /\ UNCHANGED <<result, sessOk, dbFaults, faulted, cause, clean>>

\* a scrape_site without the handler of line 106
scrape_site_uncaught(p) == IF p = "raised" THEN "raised" ELSE "returned"

\* what ends scrape_site once run() is over: `return result` at line 104
\* or at line 116, the handler of line 106 catching what run() raised
scrape_site_exit(p) == "returned"

\* the value scrape_site returns then
scrape_site_result(p, r) == IF p = "done" THEN r ELSE FailResult

\* scrape_site after run() (lines 101-116): the result of run, or a fresh
\* ScrapeResult when run raised.  The scraper object and the request's
\* session (api/database.py 186-191) are dropped.
ScrapeSiteReturn ==
    /\ mpc = "running"
    /\ pc \in {"done", "raised"}
    /\ mresult' = scrape_site_result(pc, result)
    /\ mpc' = scrape_site_exit(pc)
    /\ pc' = "idle"
    /\ result' = NewResult /\ pending_commits' = 0
    /\ location_cache' = <<>> /\ location_cache_loaded' = FALSE
    /\ schedule_items' = <<>> /\ unique_profiles' = <<>> /\ idx' = 1
    /\ listing' = NoListing /\ cur' = NoCur /\ sidx' = 1
    /\ tx' = db /\ pend' = EmptyBag /\ sessOk' = TRUE
    /\ fetchLog' = <<>> /\ fetchFailed' = {} /\ faulted' = {} /\ saveFailed' = {}
    /\ saves' = <<>> /\ built' = EmptyBag /\ justSaved' = FALSE
    /\ startDb' = db
    /\ changed' = FALSE
    /\ stop' = FALSE
    /\ profile_data' = NoData
    /\ last_request_time' = 0 /\ fpc' = "idle" /\ attempt' = 0 /\ waits' = <<>>
    /\ releases' = <<>> /\ calls' = <<>>
    /\ clean' = (clean /\ pc = "done")
    /\ UNCHANGED <<site_key, runNo, crawlVars, db, dbFaults, page, cause, now, crawler>>

\* the site publishes another schedule page between two runs
SiteChanges ==
    /\ mpc = "returned"
    /\ runNo < MaxRuns
    /\ ~changed
    /\ \E pg \in Pages(site_key) \ {page} :
       /\ page' = pg
       /\ changed' = TRUE
    /\ UNCHANGED <<profile_data, fetcherVars>>
    /\ UNCHANGED <<mgrVars, pc, result, pending_commits, cacheVars, crawlVars, loopVars,
                   idx, listing, cur, sidx, storeVars, dbFaults, fetchLog, fetchFailed,
                   faulted, saveFailed, saves, built, justSaved, cause, startDb, clean>>

Next ==
    \/ ScrapeSite
    \/ ScrapeSchedule
    \/ FetchProfile
    \/ SaveBegin
    \/ SaveSchedule
    \/ SaveEnd
    \/ Finalize
    \/ ScrapeSiteReturn
    \/ SiteChanges

Spec == Init /\ [][Next]_vars

\* ---------------------------------------------------- location resolution
\* scripts/seed_locations.py: four of the rows it inserts (lines 28, 30, 34
\* and 39), with ids in its order
SeedRows ==
    { [id |-> 1, town |-> Txt(<<"vaughan">>, "title"), detail |-> UnknownLit, dflt |-> FALSE],
      [id |-> 2, town |-> Txt(<<"downtown">>, "title"),
       detail |-> Txt(<<"university", "&", "queen">>, "title"), dflt |-> FALSE],
      [id |-> 3, town |-> Txt(<<"downtown">>, "title"),
       detail |-> Txt(<<"front", "&", "spadina">>, "title"), dflt |-> FALSE],
      [id |-> 4, town |-> Txt(<<"unknown">>, "title"), detail |-> UnknownLit, dflt |-> TRUE] }

\* databases that hold some of these rows (rows can be deleted through
\* api/db_viewer.py) and no listing
LocStores ==
    { [src |-> TRUE, listings |-> {}, locs |-> L, scheds |-> EmptyBag] : L \in SUBSET SeedRows }

\* location strings of schedule items, as word sequences
RawWords ==
    { <<"downtown", "queen">>,
      <<"downtown", "university", "and", "queen">>,
      <<"downtown", ",", "king">>,
      <<"vaughan", "jane">>,
      <<"oakville", "trafalger">>,
      <<"south", "downtown">>,
      <<"rexdale">> }

\* the same strings in capitals, capitalised and in small letters
RawLocs == { Txt(w, c) : w \in RawWords, c \in {"upper", "title", "lower"} }

\* schedule pages of one profile with one or two of these locations
LocPages ==
    { <<Item("u1", "Monday", l)>> : l \in RawLocs }
    \cup { <<Item("u1", "Monday", l), Item("u1", "Tuesday", m)>> : l, m \in RawLocs }

\* the last run of a behaviour, against one of these databases and pages
InitLoc ==
    /\ site_key \in SCRAPER_REGISTRY
    /\ db \in LocStores
    /\ mpc = "idle" /\ mresult = NewResult /\ runNo = MaxRuns - 1
    /\ pc = "idle" /\ result = NewResult /\ pending_commits = 0
    /\ location_cache = <<>> /\ location_cache_loaded = FALSE
    /\ crawler_initialized = FALSE /\ browser = "closed"
    /\ schedule_items = <<>> /\ unique_profiles = <<>> /\ idx = 1
    /\ listing = NoListing /\ cur = NoCur /\ sidx = 1
    /\ tx = db /\ pend = EmptyBag /\ sessOk = TRUE
    /\ dbFaults = 0 /\ fetchLog = <<>> /\ fetchFailed = {} /\ faulted = {}
    /\ saveFailed = {}
    /\ saves = <<>> /\ built = EmptyBag /\ justSaved = FALSE /\ cause = ""
    /\ startDb = db /\ clean = TRUE
    /\ page \in LocPages /\ changed = FALSE
    /\ stop = FALSE
    /\ profile_data = NoData /\ NewCrawler

NextRun ==
    \/ ScrapeSite
    \/ ScrapeSchedule
    \/ FetchProfile
    \/ SaveBegin
    \/ SaveSchedule
    \/ SaveEnd
    \/ Finalize
    \/ ScrapeSiteReturn

SpecLoc == InitLoc /\ [][NextRun]_vars

\* --------------------------------------------------------- cancellation
\* The environment raises the stop signal while a run is in progress.
\* crawlers/crawlee_stealth.py imports is_cancelled from scrapers/base.py;
\* base.py defines no such function and run() reads no signal, so raising
\* it changes nothing else.
StopRequested ==
    /\ mpc = "running"
    /\ pc \in {"schedule", "profile", "save", "sched"}
    /\ ~stop
    /\ stop' = TRUE
    /\ UNCHANGED <<site_key, mpc, mresult, runNo, pc, result, pending_commits, cacheVars,
                   crawlVars, loopVars, idx, listing, cur, sidx, storeVars, dbFaults,
                   fetchLog, fetchFailed, faulted, saveFailed, saves, built, justSaved,
                   cause, startDb, envVars, clean>>

NextStop ==
    \/ Next
    \/ StopRequested

SpecStop == Init /\ [][NextStop]_vars

\* ------------------------------------------------------- one long run
\* The last run of a behaviour, of the SFT site against a seeded database
\* and a page of MaxProfiles profiles; any number of fetches may fail and
\* no database fault is injected.
InitLong ==
    /\ site_key = "sft"
    /\ db = SeededStore
    /\ mpc = "idle" /\ mresult = NewResult /\ runNo = MaxRuns - 1
    /\ pc = "idle" /\ result = NewResult /\ pending_commits = 0
    /\ location_cache = <<>> /\ location_cache_loaded = FALSE
    /\ crawler_initialized = FALSE /\ browser = "closed"
    /\ schedule_items = <<>> /\ unique_profiles = <<>> /\ idx = 1
    /\ listing = NoListing /\ cur = NoCur /\ sidx = 1
    /\ tx = db /\ pend = EmptyBag /\ sessOk = TRUE
    /\ dbFaults = MaxDbFaults /\ fetchLog = <<>> /\ fetchFailed = {} /\ faulted = {}
    /\ saveFailed = {}
    /\ saves = <<>> /\ built = EmptyBag /\ justSaved = FALSE /\ cause = ""
    /\ startDb = db /\ clean = TRUE
    /\ page = LongPage /\ changed = FALSE
    /\ stop = FALSE
    /\ profile_data = NoData /\ NewCrawler

FetchAnyProfile == FetchProfileUpTo(MaxProfiles)

NextLong ==
    \/ ScrapeSite
    \/ ScrapeSchedule
    \/ FetchAnyProfile
    \/ SaveBegin
    \/ SaveSchedule
    \/ SaveEnd
    \/ Finalize
    \/ ScrapeSiteReturn

SpecLong == InitLong /\ [][NextLong]_vars

\* ------------------------------------------------------------ the fetcher
\* Times are in hundredths of a second.
\* StaticCrawler.__init__ / StealthCrawler.__init__ max_retries (dd.py:224
\* passes the same value)
max_retries == 3

\* the crawler class the scraper of the site constructs (sft.py:123,
\* dd.py:219)
CrawlerKind(key) == IF key = "discreet" THEN "stealth" ELSE "static"

\* SiteConfig.rate_limit_seconds of the site (config.py:44 and 163), which
\* the scraper passes to its crawler
rate_limit(key) == IF key = "discreet" THEN 300 ELSE 100

\* random.uniform(0, 0.3) of StealthCrawler._wait_for_rate_limit (three of
\* its values); StaticCrawler adds nothing
Jitters(kind) == IF kind = "stealth" THEN {0, 15, 30} ELSE {0}

\* the time one request (client.get, or page.goto with the waits that
\* follow it) takes
RequestTime == 20

\* _wait_for_rate_limit with the stamp taken before the sleep
StampBeforeSleep(kind, t, last, limit, jitter) ==
    LET elapsed == t - last
        wait == IF kind = "stealth" THEN limit - elapsed + jitter
                ELSE IF elapsed < limit THEN limit - elapsed ELSE 0
        t2 == IF wait > 0 THEN t + wait ELSE t
    IN  [now |-> t2, last |-> t]

\* _wait_for_rate_limit (static.py 54-61, stealth.py 61-70) called at time
\* t: the time at which it returns and the stamp it leaves
wait_for_rate_limit(kind, t, last, limit, jitter) ==
    LET elapsed == t - last
        wait == IF kind = "stealth" THEN limit - elapsed + jitter
                ELSE IF elapsed < limit THEN limit - elapsed ELSE 0
        t2 == IF wait > 0 THEN t + wait ELSE t
    IN  [now |-> t2, last |-> t2]

RECURSIVE Pow2(_)
Pow2(n) == IF n = 0 THEN 1 ELSE 2 * Pow2(n - 1)

\* 100 * 1.5 ** n, whole for n <= 2
RECURSIVE Pow15(_)
Pow15(n) == IF n = 0 THEN 100 ELSE (3 * Pow15(n - 1)) \div 2

\* a backoff that does not grow
BackoffFlat(kind, n) == IF kind = "stealth" THEN 150 ELSE 100

\* the sleep after failed attempt n (from 0): 2 ** attempt seconds
\* (static.py:123), min(1.5 ** attempt, 3) seconds (stealth.py:456)
Backoff(kind, n) ==
    IF kind = "stealth"
    THEN IF n <= 2 /\ Pow15(n) < 300 THEN Pow15(n) ELSE 300
    ELSE 100 * Pow2(n)

\* failed attempts of the run so far
RECURSIVE FailedIn(_)
FailedIn(cs) ==
    IF cs = <<>> THEN 0
    ELSE (IF cs[1].ok THEN cs[1].tries - 1 ELSE cs[1].tries) + FailedIn(Tail(cs))

FailedAttempts == FailedIn(calls) + (IF fpc = "attempt" THEN attempt ELSE 0)

\* crawler.fetch up to its loop (static.py 103-107, stealth.py 361-367),
\* called by scrape_schedule or by scrape_profile of the profile run is at
FetchCall ==
    /\ mpc = "running"
    /\ \/ pc = "schedule" /\ fpc = "idle" /\ Len(releases) = 0
       \/ /\ pc = "profile" /\ idx <= Len(unique_profiles)
          /\ fpc \in {"returned", "raised"}
          /\ Len(releases) = Len(fetchLog) + 1
    /\ \E jitter \in Jitters(CrawlerKind(site_key)) :
          LET w == wait_for_rate_limit(CrawlerKind(site_key), now, last_request_time,
                                       rate_limit(site_key), jitter)
          IN  /\ now' = w.now
              /\ last_request_time' = w.last
              /\ releases' = Append(releases, w.now)
    /\ fpc' = "attempt" /\ attempt' = 0 /\ waits' = <<>>
    /\ UNCHANGED <<mgrVars, pc, result, pending_commits, cacheVars, crawlVars, loopVars,
                   idx, listing, cur, sidx, storeVars, dbFaults, fetchLog, fetchFailed,
                   faulted, saveFailed, saves, built, justSaved, cause, startDb, page,
                   changed, clean, profile_data, calls, crawler>>

\* one pass of the loop of crawler.fetch (static.py 109-128, stealth.py
\* 369-459): the request returns the page, or fails with a transport error
\* and is followed by the backoff sleep unless it was the last attempt
FetchAttempt ==
    /\ fpc = "attempt"
    /\ attempt < max_retries
    /\ \E ok \in BOOLEAN :
          LET last == attempt >= max_retries - 1
              sleep == Backoff(CrawlerKind(site_key), attempt)
          IN  IF ok
              THEN /\ now' = now + RequestTime
                   /\ fpc' = "returned"
                   /\ calls' = Append(calls, [tries |-> attempt + 1, waits |-> waits,
                                              ok |-> TRUE])
                   /\ UNCHANGED <<attempt, waits>>
              ELSE /\ FailedAttempts < MaxTransient
                   /\ now' = now + RequestTime + (IF last THEN 0 ELSE sleep)
                   /\ attempt' = attempt + 1
                   /\ waits' = IF last THEN waits ELSE Append(waits, sleep)
                   /\ fpc' = IF last THEN "raised" ELSE "attempt"
                   /\ calls' = IF last
                               THEN Append(calls, [tries |-> attempt + 1, waits |-> waits,
                                                   ok |-> FALSE])
                               ELSE calls
    /\ UNCHANGED <<mgrVars, pc, result, pending_commits, cacheVars, crawlVars, loopVars,
                   idx, listing, cur, sidx, storeVars, dbFaults, fetchLog, fetchFailed,
                   faulted, saveFailed, saves, built, justSaved, cause, startDb, page,
                   changed, clean, profile_data, last_request_time, releases, crawler>>

\* scrape_schedule once its fetch is over (sft.py 125-133, dd.py 247-256):
\* the browser of dd fails before any fetch; a fetch that raised makes
\* scrape_schedule raise
ScheduleReturn ==
    /\ ScrapeSchedule
    /\ \/ Len(releases) = 0 /\ fpc = "idle" /\ cause' = "browser"
       \/ Len(releases) = 1 /\ fpc = "raised" /\ cause' = "schedule"
       \/ Len(releases) = 1 /\ fpc = "returned" /\ cause' # "browser"

\* scrape_profile once its fetch is over (sft.py 241-254, dd.py 390-406):
\* it raises what the fetch raised
FetchReturn ==
    /\ FetchAnyProfile
    /\ Len(releases) = Len(fetchLog) + 2
    /\ fpc \in {"returned", "raised"}
    /\ (fpc = "raised") <=> (fetchFailed' # fetchFailed)

\* one run of a registered site over a seeded database without database
\* faults
InitFetch ==
    /\ site_key \in SCRAPER_REGISTRY
    /\ db = SeededStore
    /\ mpc = "idle" /\ mresult = NewResult /\ runNo = MaxRuns - 1
    /\ pc = "idle" /\ result = NewResult /\ pending_commits = 0
    /\ location_cache = <<>> /\ location_cache_loaded = FALSE
    /\ crawler_initialized = FALSE /\ browser = "closed"
    /\ schedule_items = <<>> /\ unique_profiles = <<>> /\ idx = 1
    /\ listing = NoListing /\ cur = NoCur /\ sidx = 1
    /\ tx = db /\ pend = EmptyBag /\ sessOk = TRUE
    /\ dbFaults = MaxDbFaults /\ fetchLog = <<>> /\ fetchFailed = {} /\ faulted = {}
    /\ saveFailed = {}
    /\ saves = <<>> /\ built = EmptyBag /\ justSaved = FALSE /\ cause = ""
    /\ startDb = db /\ clean = TRUE
    /\ page \in Pages(site_key) /\ changed = FALSE
    /\ stop = FALSE
    /\ profile_data = NoData /\ NewCrawler

NextFetch ==
    \/ ScrapeSite
    \/ FetchCall
    \/ FetchAttempt
    \/ ScheduleReturn
    \/ FetchReturn
    \/ SaveBegin
    \/ SaveSchedule
    \/ SaveEnd
    \/ Finalize
    \/ ScrapeSiteReturn

SpecFetch == InitFetch /\ [][NextFetch]_vars

\* ------------------------------------------------------- concurrent runs
\* scrape_all(parallel=True) (manager.py 140-143) gathers one scrape_site
\* per site; get_scraper (line 76) gives every scraper the manager's one
\* session, self.db.  The run of site_key is modelled as before; of the run
\* of the other site only its operations on the shared session are, and
\* its rows are left out.  A task is switched only at an await, and
\* save_listing has none, so the other run acts while this one awaits a
\* fetch (lines 758 and 784).
OtherSite == IF site_key = "sft" THEN "discreet" ELSE "sft"

\* this run is suspended in scrape_schedule or scrape_profile
Awaiting == mpc = "running" /\ pc \in {"schedule", "profile"}

\* the other run commits (line 731 or 742): Session.commit() commits all
\* that the session holds
OtherCommit ==
    /\ Awaiting
    /\ sessOk
    /\ db # tx
    /\ db' = tx
    /\ UNCHANGED <<mgrVars, pc, result, pending_commits, cacheVars, crawlVars, loopVars,
                   idx, listing, cur, sidx, tx, pend, sessOk, dbFaults, fetchLog,
                   fetchFailed, faulted, saveFailed, saves, built, justSaved, cause,
                   startDb, envVars, clean>>

\* the other run fails to auto-create a Location and rolls the session
\* back (lines 684-687)
OtherRollback ==
    /\ Awaiting
    /\ short_name(OtherSite) = "SFT"
    /\ dbFaults < MaxDbFaults
    /\ dbFaults' = dbFaults + 1
    /\ tx' = db /\ pend' = EmptyBag /\ sessOk' = TRUE
    /\ UNCHANGED <<mgrVars, pc, result, pending_commits, cacheVars, crawlVars, loopVars,
                   idx, listing, cur, sidx, db, fetchLog, fetchFailed, faulted,
                   saveFailed, saves, built, justSaved, cause, startDb, envVars, clean>>

\* a flush of the other run fails (line 546 or 735) and nothing rolls the
\* session back
OtherFlushFails ==
    /\ Awaiting
    /\ sessOk
    /\ dbFaults < MaxDbFaults
    /\ dbFaults' = dbFaults + 1
    /\ tx' = db /\ pend' = EmptyBag /\ sessOk' = FALSE
    /\ UNCHANGED <<mgrVars, pc, result, pending_commits, cacheVars, crawlVars, loopVars,
                   idx, listing, cur, sidx, db, fetchLog, fetchFailed, faulted,
                   saveFailed, saves, built, justSaved, cause, startDb, envVars, clean>>

\* one of two gathered runs over a seeded database
InitPar ==
    /\ site_key \in SCRAPER_REGISTRY
    /\ db = SeededStore
    /\ mpc = "idle" /\ mresult = NewResult /\ runNo = MaxRuns - 1
    /\ pc = "idle" /\ result = NewResult /\ pending_commits = 0
    /\ location_cache = <<>> /\ location_cache_loaded = FALSE
    /\ crawler_initialized = FALSE /\ browser = "closed"
    /\ schedule_items = <<>> /\ unique_profiles = <<>> /\ idx = 1
    /\ listing = NoListing /\ cur = NoCur /\ sidx = 1
    /\ tx = db /\ pend = EmptyBag /\ sessOk = TRUE
    /\ dbFaults = 0 /\ fetchLog = <<>> /\ fetchFailed = {} /\ faulted = {}
    /\ saveFailed = {}
    /\ saves = <<>> /\ built = EmptyBag /\ justSaved = FALSE /\ cause = ""
    /\ startDb = db /\ clean = TRUE
    /\ page \in Pages(site_key) /\ changed = FALSE
    /\ stop = FALSE
    /\ profile_data = NoData /\ NewCrawler

NextPar ==
    \/ NextRun
    \/ OtherCommit
    \/ OtherRollback
    \/ OtherFlushFails

SpecPar == InitPar /\ [][NextPar]_vars

\* ------------------------------------------------- the stealth session
\* The browser session of the StealthCrawler inside a run of DDScraper.
\* The times of the same calls are the subject of SpecFetch; here the clock
\* stands still.  playwright.stop() ends the driver process and with it
\* every browser, context and page launched through it; a close that times
\* out (stealth.py 245-275) drops the handle like a close that returns.

\* _maybe_refresh_browser, line 95: requests between two rebuilds
RefreshEvery == 30

\* profiles of the page that makes the crawler rebuild its session twice
RecycleProfiles == 2 * RefreshEvery

\* a DD schedule page of RecycleProfiles profiles, one item each
RecyclePage ==
    [i \in 1..RecycleProfiles |->
        Item("p" \o ToString(i), "Monday", Txt(<<"downtown", ",", "queen">>, "title"))]

\* faults of the environment in one run: one on the long page
FaultBudget == IF page = RecyclePage THEN 1 ELSE MaxSessionFaults

\* StealthCrawler._check_context_valid (stealth.py 279-291)
check_context_valid(c) == c.context /\ c.browser /\ c.connected

\* a _cleanup that closes page, context and browser and leaves the driver
CleanupKeepsDriver(c) ==
    [c EXCEPT !.page = "none", !.context = FALSE, !.browser = FALSE,
              !.connected = FALSE]

\* StealthCrawler._cleanup (stealth.py 239-277): close and drop the page,
\* the context and the browser, stop and drop the driver
cleanup(c) ==
    [c EXCEPT !.page = "none", !.context = FALSE, !.browser = FALSE,
              !.playwright = FALSE, !.connected = FALSE,
              !.orphan = IF c.playwright THEN FALSE ELSE @]

\* StealthCrawler._init_browser (stealth.py 102-238): nothing when the
\* session is valid; otherwise the old context, browser and driver are
\* closed and new ones started, and self._page is left as it was.  A
\* failure on the way cleans up and raises.
init_browser(c, ok) ==
    IF c.browser /\ check_context_valid(c)
    THEN [c |-> c, raised |-> FALSE]
    ELSE IF ok
         THEN [c |-> [c EXCEPT !.playwright = TRUE, !.browser = TRUE,
                               !.context = TRUE, !.connected = TRUE,
                               !.page = IF @ = "none" THEN "none" ELSE "stale",
                               !.orphan = IF c.playwright THEN FALSE ELSE @,
                               !.served = 0, !.inCall = FALSE],
               raised |-> FALSE]
         ELSE [c |-> [cleanup(c) EXCEPT !.faults = @ + 1], raised |-> TRUE]

\* StealthCrawler._reinit_browser_if_needed (stealth.py 293-304)
reinit_browser_if_needed(c, ok) ==
    IF check_context_valid(c)
    THEN [c |-> c, raised |-> FALSE]
    ELSE init_browser(cleanup(c), ok)

\* a refresh that lets one more request through
RefreshLate(c, ok) ==
    IF c.request_count + 1 > RefreshEvery
    THEN init_browser(cleanup([c EXCEPT !.request_count = 0]), ok)
    ELSE [c |-> [c EXCEPT !.request_count = @ + 1], raised |-> FALSE]

\* StealthCrawler._maybe_refresh_browser (stealth.py 91-100)
maybe_refresh_browser(c, ok) ==
    IF c.request_count + 1 >= RefreshEvery
    THEN init_browser(cleanup([c EXCEPT !.request_count = 0]), ok)
    ELSE [c |-> [c EXCEPT !.request_count = @ + 1], raised |-> FALSE]

\* the three calls of fetch before its loop (stealth.py 362-364); the first
\* that raises ends the fetch
before_loop(c, ok1, ok2) ==
    LET a == init_browser(c, ok1)
        b == IF a.raised THEN a ELSE reinit_browser_if_needed(a.c, ok1)
    IN  IF b.raised THEN b ELSE maybe_refresh_browser(b.c, ok2)

\* StealthCrawler._get_or_create_page (stealth.py 72-89) with reuse_page:
\* self._page when there is one (reading .url of a closed page does not
\* raise), a new page of the context otherwise
get_or_create_page(c) == IF c.page # "none" THEN c ELSE [c EXCEPT !.page = "live"]

\* the keyword test of fetch (stealth.py 446-451): the handles are dropped
\* without being closed
drop_session(c) ==
    [c EXCEPT !.page = "none", !.context = FALSE, !.browser = FALSE,
              !.connected = FALSE, !.orphan = @ \/ c.browser]

\* the try block of one pass of the loop of fetch (stealth.py 371-423) on
\* the outcome the site and the browser give to the navigation
try_navigation(c, outcome, ok) ==
    LET r == IF check_context_valid(c) THEN [c |-> c, raised |-> FALSE]
             ELSE reinit_browser_if_needed(c, ok)
        p == get_or_create_page(r.c)
        n == [p EXCEPT !.served = IF p.inCall THEN @ ELSE @ + 1, !.inCall = TRUE]
    IN  IF r.raised \/ ~check_context_valid(r.c)
        THEN [c |-> r.c, res |-> "session", nav |-> FALSE]
        ELSE IF p.page = "stale"
        THEN [c |-> [p EXCEPT !.staleNav = TRUE], res |-> "session", nav |-> TRUE]
        ELSE IF outcome = "ok"
        THEN [c |-> n, res |-> "ok", nav |-> TRUE]
        ELSE [c |-> [n EXCEPT !.faults = @ + 1,
                              !.connected = (outcome = "request")],
              res |-> outcome, nav |-> TRUE]

\* the except block of the same pass (stealth.py 425-459): the page is
\* forgotten, a session-level error drops the handles, and unless this was
\* the last attempt the session is reinitialised when it is not valid
except_navigation(c, res, last, ok) ==
    LET d == IF res = "session" THEN drop_session(c)
             ELSE [c EXCEPT !.page = "none", !.orphan = @ \/ (c.page = "live")]
    IN  IF last THEN [c |-> d, raised |-> FALSE]
        ELSE reinit_browser_if_needed(d, ok)

\* DDScraper._ensure_crawler in scrape_schedule (dd.py 228-245, 253): the
\* browser is started; when that fails the crawler is closed and
\* scrape_schedule raises
StealthEnsure ==
    /\ mpc = "running" /\ pc = "schedule"
    /\ site_key = "discreet"
    /\ ~crawler_initialized /\ fpc = "idle"
    /\ \E ok \in BOOLEAN :
          LET r == init_browser(crawler, ok)
          IN  /\ r.c.faults <= FaultBudget
              /\ crawler' = IF r.raised
                            THEN [cleanup(r.c) EXCEPT !.launchFailed = TRUE]
                            ELSE r.c
              /\ fpc' = IF r.raised THEN "raised" ELSE "idle"
              /\ crawler_initialized' = ~r.raised
              /\ browser' = IF r.raised THEN "closed" ELSE "open"
    /\ UNCHANGED <<mgrVars, pc, result, pending_commits, cacheVars, loopVars,
                   idx, listing, cur, sidx, storeVars, dbFaults, fetchLog, fetchFailed,
                   faulted, saveFailed, saves, built, justSaved, cause, startDb, page,
                   changed, clean, profile_data, now, last_request_time, attempt, waits,
                   releases, calls>>

\* crawler.fetch up to its loop (stealth.py 361-367), called by
\* scrape_schedule or by scrape_profile of the profile run is at
StealthFetchCall ==
    /\ mpc = "running"
    /\ site_key = "discreet"
    /\ crawler_initialized
    /\ \/ pc = "schedule" /\ fpc = "idle" /\ Len(calls) = 0
       \/ /\ pc = "profile" /\ idx <= Len(unique_profiles)
          /\ fpc \in {"returned", "raised"}
          /\ Len(calls) = Len(fetchLog) + 1
    /\ \E ok1, ok2 \in BOOLEAN :
          LET r == before_loop([crawler EXCEPT !.inCall = FALSE,
                                               !.launchFailed = FALSE], ok1, ok2)
          IN  /\ r.c.faults <= FaultBudget
              /\ crawler' = [r.c EXCEPT !.launchFailed = r.raised]
              /\ fpc' = IF r.raised THEN "raised" ELSE "attempt"
              /\ calls' = IF r.raised
                          THEN Append(calls, [tries |-> 0, waits |-> <<>>, ok |-> FALSE])
                          ELSE calls
    /\ attempt' = 0 /\ waits' = <<>>
    /\ UNCHANGED <<mgrVars, pc, result, pending_commits, cacheVars, crawlVars, loopVars,
                   idx, listing, cur, sidx, storeVars, dbFaults, fetchLog, fetchFailed,
                   faulted, saveFailed, saves, built, justSaved, cause, startDb, page,
                   changed, clean, profile_data, now, last_request_time, releases>>

\* one pass of the loop of fetch (stealth.py 369-459)
StealthAttempt ==
    /\ site_key = "discreet"
    /\ fpc = "attempt"
    /\ attempt < max_retries
    /\ \E outcome \in {"ok", "request", "session"}, ok1, ok2 \in BOOLEAN :
          LET last == attempt >= max_retries - 1
              t == try_navigation(crawler, outcome, ok1)
              e == except_navigation(t.c, t.res, last, ok2)
              done == [tries |-> attempt + 1, waits |-> <<>>, ok |-> t.res = "ok"]
          IN  /\ (IF t.res = "ok" THEN t.c ELSE e.c).faults <= FaultBudget
              /\ IF t.res = "ok"
                 THEN /\ crawler' = t.c
                      /\ fpc' = "returned"
                      /\ calls' = Append(calls, done)
                      /\ UNCHANGED attempt
                 ELSE /\ crawler' = [e.c EXCEPT !.launchFailed = e.raised]
                      /\ attempt' = attempt + 1
                      /\ fpc' = IF last \/ e.raised THEN "raised" ELSE "attempt"
                      /\ calls' = IF last \/ e.raised THEN Append(calls, done) ELSE calls
    /\ UNCHANGED <<mgrVars, pc, result, pending_commits, cacheVars, crawlVars, loopVars,
                   idx, listing, cur, sidx, storeVars, dbFaults, fetchLog, fetchFailed,
                   faulted, saveFailed, saves, built, justSaved, cause, startDb, page,
                   changed, clean, profile_data, now, last_request_time, waits,
                   releases>>

\* the browser dies while the run saves a profile or waits for its turn
BrowserCrash ==
    /\ mpc = "running" /\ pc \in {"profile", "save", "sched"}
    /\ fpc \in {"returned", "raised"}
    /\ crawler.browser /\ crawler.connected
    /\ crawler.faults < FaultBudget
    /\ crawler' = [crawler EXCEPT !.connected = FALSE, !.faults = @ + 1]
    /\ UNCHANGED <<mgrVars, pc, result, pending_commits, cacheVars, crawlVars, loopVars,
                   idx, listing, cur, sidx, storeVars, dbFaults, fetchLog, fetchFailed,
                   faulted, saveFailed, saves, built, justSaved, cause, startDb, page,
                   changed, clean, profile_data, now, last_request_time, fpc, attempt,
                   waits, releases, calls>>

\* scrape_schedule once _ensure_crawler or its fetch is over (dd.py
\* 247-256): it raises what they raised
StealthScheduleReturn ==
    /\ ScrapeSchedule
    /\ \/ Len(calls) = 0 /\ fpc = "raised" /\ cause' = "browser"
       \/ Len(calls) = 1 /\ fpc = "raised" /\ cause' = "schedule"
       \/ Len(calls) = 1 /\ fpc = "returned" /\ cause' \notin {"browser", "schedule"}

\* scrape_profile once its fetch is over (dd.py 390-406)
StealthFetchReturn ==
    /\ FetchProfileUpTo(RecycleProfiles)
    /\ Len(calls) = Len(fetchLog) + 2
    /\ fpc \in {"returned", "raised"}
    /\ (fpc = "raised") <=> (fetchFailed' # fetchFailed)

\* the finally block of DDScraper.run (dd.py 412-420): crawler.close()
StealthClose ==
    /\ mpc = "running" /\ pc \in {"done", "raised"}
    /\ ~crawler.closed
    /\ crawler' = [cleanup(crawler) EXCEPT !.closed = TRUE]
    /\ UNCHANGED <<mgrVars, pc, result, pending_commits, cacheVars, crawlVars, loopVars,
                   idx, listing, cur, sidx, storeVars, dbFaults, fetchLog, fetchFailed,
                   faulted, saveFailed, saves, built, justSaved, cause, startDb, page,
                   changed, clean, profile_data, now, last_request_time, fpc, attempt,
                   waits, releases, calls>>

\* scrape_site once run and its finally block are over
StealthSiteReturn == ScrapeSiteReturn /\ crawler.closed

\* one run of DD over a seeded database without database faults, on a short
\* page or on the long one
InitStealth ==
    /\ site_key = "discreet"
    /\ db = SeededStore
    /\ mpc = "idle" /\ mresult = NewResult /\ runNo = MaxRuns - 1
    /\ pc = "idle" /\ result = NewResult /\ pending_commits = 0
    /\ location_cache = <<>> /\ location_cache_loaded = FALSE
    /\ crawler_initialized = FALSE /\ browser = "closed"
    /\ schedule_items = <<>> /\ unique_profiles = <<>> /\ idx = 1
    /\ listing = NoListing /\ cur = NoCur /\ sidx = 1
    /\ tx = db /\ pend = EmptyBag /\ sessOk = TRUE
    /\ dbFaults = MaxDbFaults /\ fetchLog = <<>> /\ fetchFailed = {} /\ faulted = {}
    /\ saveFailed = {}
    /\ saves = <<>> /\ built = EmptyBag /\ justSaved = FALSE /\ cause = ""
    /\ startDb = db /\ clean = TRUE
    /\ page \in Pages(site_key) \cup {RecyclePage} /\ changed = FALSE
    /\ stop = FALSE
    /\ profile_data = NoData /\ NewCrawler

NextStealth ==
    \/ ScrapeSite
    \/ StealthEnsure
    \/ StealthFetchCall
    \/ StealthAttempt
    \/ BrowserCrash
    \/ StealthScheduleReturn
    \/ StealthFetchReturn
    \/ SaveBegin
    \/ SaveSchedule
    \/ SaveEnd
    \/ Finalize
    \/ StealthClose
    \/ StealthSiteReturn

SpecStealth == InitStealth /\ [][NextStealth]_vars

\* ------------------------------------------------------ tier of a listing
\* the site adapters: sites/sft.py, dd.py, hiddengem.py, secret.py,
\* select.py, mirage.py, tdl.py
Adapters == {"sft", "discreet", "hiddengem", "secret", "select", "mirage", "topdrawer"}

\* the tier hints the adapter's _parse_schedule puts on a ScheduleItem
ScheduleTiers(a) ==
    CASE a = "sft"      -> {NoTier, "VIP", "Elite"}
      [] a = "discreet" -> {NoTier, "Diamond Doll", "Platinum Doll"}
      [] a = "secret"   -> {"Blush", "Rose", "Rouge"}
      [] a = "select"   -> {"Standard"}
      [] OTHER          -> {NoTier}

\* the tiers the adapter's _parse_profile finds on a profile page
ProfileTiers(a) ==
    CASE a = "sft"       -> {NoTier, "VIP", "Elite"}
      [] a = "discreet"  -> {NoTier, "Diamond Doll", "Platinum Doll"}
      [] a = "hiddengem" -> {NoTier, "Pearl", "Diamond"}
      [] a = "secret"    -> {"Blush", "Rose", "Rouge"}
      [] a = "select"    -> {NoTier}
      [] a = "mirage"    -> {"Regular", "VIP", "Platinum VIP"}
      [] a = "topdrawer" -> {"Normal", "VIP", "Platinum"}

\* a ScheduleItem of profile u1 with a tier hint
TierItem(day, tier) ==
    [url |-> "u1", day |-> day, loc |-> Txt(<<"downtown", "queen">>, "upper"), tier |-> tier]

\* the schedule items of one profile: one item, or two with their own hints
TierItems(a) ==
    { <<TierItem("Monday", t)>> : t \in ScheduleTiers(a) }
      \cup { <<TierItem("Monday", t), TierItem("Tuesday", u)>> :
                t \in ScheduleTiers(a), u \in ScheduleTiers(a) }

\* str.upper() of the tier names of mirage
TierUpper(t) ==
    CASE t = "Regular"      -> "REGULAR"
      [] t = "VIP"          -> "VIP"
      [] t = "Platinum VIP" -> "PLATINUM VIP"

\* str.title() of an upper-case tier name
TierTitle(u) ==
    CASE u = "REGULAR"      -> "Regular"
      [] u = "VIP"          -> "Vip"
      [] u = "PLATINUM VIP" -> "Platinum Vip"

\* utils/normalizers.py normalize_tier: tier_map.get(tier.upper(), title)
normalize_tier(t) ==
    IF t = NoTier THEN NoTier
    ELSE LET u == TierUpper(t)
         IN  CASE u = "VIP"          -> "VIP"
               [] u = "PLATINUM VIP" -> "Platinum VIP"
               [] OTHER              -> TierTitle(u)

\* a or b of Python on tiers
TierOr(a, b) == IF a # NoTier THEN a ELSE b

\* the tier that the adapter's normalize_listing gives the ScrapedListing:
\* base.py:421 (sft, discreet, hiddengem), secret.py:450, select.py:410,
\* mirage.py:399-413, tdl.py:507
normalize_listing_tier(a, schedule_item, data) ==
    CASE a = "secret"    -> TierOr(data.tier, TierOr(schedule_item.tier, "Blush"))
      [] a = "select"    -> "Standard"
      [] a = "mirage"    -> normalize_tier(TierOr(data.tier, "Regular"))
      [] a = "topdrawer" -> data.tier
      [] OTHER           -> TierOr(schedule_item.tier, data.tier)

\* run lines 776-796 for the adapter site_key: normalize_listing on the
\* first schedule item of the profile and the data of its page
NormalizeListing ==
    /\ pc = "profile"
    /\ idx <= Len(unique_profiles)
    /\ listing' = [name |-> NameOf(CurUrl), url |-> CurUrl,
                   schedules |-> [i \in 1..Len(schedule_items) |->
                                     [day |-> schedule_items[i].day,
                                      loc |-> schedule_items[i].loc]],
                   tier |-> normalize_listing_tier(site_key, schedule_items[1],
                                                   profile_data)]
    /\ pc' = "save"
    /\ UNCHANGED <<mgrVars, result, pending_commits, cacheVars, crawlVars, loopVars, idx,
                   cur, sidx, storeVars, dbFaults, fetchLog, fetchFailed, faulted,
                   saveFailed, saves, built, justSaved, cause, startDb, envVars, clean>>

\* an adapter at the first profile of its run, the profile page just read
InitTier ==
    /\ site_key \in Adapters
    /\ db = SeededStore
    /\ mpc = "running" /\ mresult = NewResult /\ runNo = MaxRuns
    /\ pc = "profile" /\ pending_commits = 0
    /\ location_cache = <<>> /\ location_cache_loaded = FALSE
    /\ crawler_initialized = FALSE /\ browser = "closed"
    /\ schedule_items \in TierItems(site_key)
    /\ result = [NewResult EXCEPT !.total = Len(schedule_items)]
    /\ unique_profiles = <<"u1">> /\ idx = 1
    /\ listing = NoListing /\ cur = NoCur /\ sidx = 1
    /\ tx = db /\ pend = EmptyBag /\ sessOk = TRUE
    /\ dbFaults = MaxDbFaults /\ fetchLog = <<"u1">> /\ fetchFailed = {} /\ faulted = {}
    /\ saveFailed = {}
    /\ saves = <<>> /\ built = EmptyBag /\ justSaved = FALSE /\ cause = ""
    /\ startDb = db /\ clean = TRUE
    /\ page = schedule_items /\ changed = FALSE
    /\ stop = FALSE
    /\ profile_data \in [tier : ProfileTiers(site_key)] /\ NewCrawler

NextTier == NormalizeListing

SpecTier == InitTier /\ [][NextTier]_vars

\* ------------------------------------------------- a location revisited
\* schedule pages of one profile on which the first location comes back
\* after another one
RevisitPages ==
    { <<Item("u1", "Monday", Txt(l, "upper")), Item("u1", "Tuesday", Txt(m, "upper")),
        Item("u1", "Wednesday", Txt(l, "upper"))>> : l, m \in RawWords }

\* the last run of a behaviour against one of the databases of SpecLoc and
\* one of these pages; no database fault is injected
InitRevisit ==
    /\ site_key \in SCRAPER_REGISTRY
    /\ db \in LocStores
    /\ mpc = "idle" /\ mresult = NewResult /\ runNo = MaxRuns - 1
    /\ pc = "idle" /\ result = NewResult /\ pending_commits = 0
    /\ location_cache = <<>> /\ location_cache_loaded = FALSE
    /\ crawler_initialized = FALSE /\ browser = "closed"
    /\ schedule_items = <<>> /\ unique_profiles = <<>> /\ idx = 1
    /\ listing = NoListing /\ cur = NoCur /\ sidx = 1
    /\ tx = db /\ pend = EmptyBag /\ sessOk = TRUE
    /\ dbFaults = MaxDbFaults /\ fetchLog = <<>> /\ fetchFailed = {} /\ faulted = {}
    /\ saveFailed = {}
    /\ saves = <<>> /\ built = EmptyBag /\ justSaved = FALSE /\ cause = ""
    /\ startDb = db /\ clean = TRUE
    /\ page \in RevisitPages /\ changed = FALSE
    /\ stop = FALSE
    /\ profile_data = NoData /\ NewCrawler

SpecRevisit == InitRevisit /\ [][NextRun]_vars

\* ------------------------------------------------ normalisation of fields
\* utils/normalizers.py on the text of one field of a profile page.  A
\* text is the sequence of its characters; only ASCII letters, digits, the
\* space and the punctuation below are modelled.

\* longest text that is enumerated
MaxText == 3

LowerLetters ==
    <<"a", "b", "c", "d", "e", "f", "g", "h", "i", "j", "k", "l", "m",
      "n", "o", "p", "q", "r", "s", "t", "u", "v", "w", "x", "y", "z">>

UpperLetters ==
    <<"A", "B", "C", "D", "E", "F", "G", "H", "I", "J", "K", "L", "M",
      "N", "O", "P", "Q", "R", "S", "T", "U", "V", "W", "X", "Y", "Z">>

DigitChars == <<"0", "1", "2", "3", "4", "5", "6", "7", "8", "9">>

PosIn(seq, ch) == CHOOSE i \in 1..Len(seq) : seq[i] = ch

IsLower(ch) == \E i \in 1..Len(LowerLetters) : LowerLetters[i] = ch
IsUpper(ch) == \E i \in 1..Len(UpperLetters) : UpperLetters[i] = ch
IsAlpha(ch) == IsLower(ch) \/ IsUpper(ch)
IsDigit(ch) == \E i \in 1..Len(DigitChars) : DigitChars[i] = ch
IsSpace(ch) == ch = " "
IsDash(ch) == ch = "-"

\* the separators of the feet and inches pattern of normalize_height
IsFeetSep(ch) == ch \in {"'", ","}

\* str.upper, str.lower and str.title
str_upper(s) ==
    [i \in 1..Len(s) |-> IF IsLower(s[i]) THEN UpperLetters[PosIn(LowerLetters, s[i])]
                         ELSE s[i]]

str_lower(s) ==
    [i \in 1..Len(s) |-> IF IsUpper(s[i]) THEN LowerLetters[PosIn(UpperLetters, s[i])]
                         ELSE s[i]]

str_title(s) ==
    [i \in 1..Len(s) |->
        IF ~IsAlpha(s[i]) THEN s[i]
        ELSE IF i = 1 \/ ~IsAlpha(s[i - 1]) THEN str_upper(<<s[i]>>)[1]
        ELSE str_lower(<<s[i]>>)[1]]

\* str.strip
str_strip(s) ==
    LET keep == {i \in 1..Len(s) : ~IsSpace(s[i])}
    IN  IF keep = {} THEN <<>>
        ELSE SubSeq(s, CHOOSE i \in keep : \A j \in keep : i <= j,
                       CHOOSE i \in keep : \A j \in keep : i >= j)

\* str.replace('/', '-')
SlashToDash(s) == [i \in 1..Len(s) |-> IF s[i] = "/" THEN "-" ELSE s[i]]

\* the end of the longest run of characters of class P that starts at i
\* (i - 1 when there is none): a greedy P*
RunEnd(s, i, P(_)) ==
    CHOOSE j \in (i - 1)..Len(s) :
        /\ \A k \in i..j : P(s[k])
        /\ j = Len(s) \/ ~P(s[j + 1])

\* the start of the run of class P that holds position i
RunStart(s, i, P(_)) ==
    CHOOSE j \in 1..i :
        /\ \A k \in j..i : P(s[k])
        /\ j = 1 \/ ~P(s[j - 1])

\* s[i..] starts with w, letter case ignored
StartsAt(s, i, w) ==
    /\ i + Len(w) - 1 <= Len(s)
    /\ \A k \in 1..Len(w) : str_lower(<<s[i + k - 1]>>)[1] = w[k]

HasSub(s, w) == \E i \in 1..Len(s) : StartsAt(s, i, w)

Least(S) == CHOOSE i \in S : \A j \in S : i <= j

\* int() of a run of digits and str() of a natural number
RECURSIVE ParseInt(_)
ParseInt(ds) ==
    IF ds = <<>> THEN 0
    ELSE 10 * ParseInt(SubSeq(ds, 1, Len(ds) - 1)) + (PosIn(DigitChars, ds[Len(ds)]) - 1)

RECURSIVE IntToStr(_)
IntToStr(n) ==
    IF n < 10 THEN <<DigitChars[n + 1]>>
    ELSE IntToStr(n \div 10) \o <<DigitChars[(n % 10) + 1]>>

\* round(lbs * 0.453592), 0.453592 being 56699 / 125000; no tie occurs
\* for the weights of fewer than five digits
LbsToKg(lbs) == (lbs * 56699 + 62500) \div 125000

\* Python None
None == <<"None">>

Kg == <<" ", "k", "g">>

\* normalize_name (lines 11-22)
normalize_name(s) ==
    IF s = <<>> THEN [out |-> s, hit |-> "empty"]
    ELSE [out |-> str_title(str_strip(s)), hit |-> "title"]

\* the tier_map of normalize_tier (lines 38-43)
tier_map ==
    { << <<"E", "L", "I", "T", "E">>, <<"E", "l", "i", "t", "e">> >>,
      << <<"V", "I", "P">>, <<"V", "I", "P">> >>,
      << <<"U", "L", "T", "R", "A", " ", "V", "I", "P">>,
         <<"U", "l", "t", "r", "a", " ", "V", "I", "P">> >>,
      << <<"P", "L", "A", "T", "I", "N", "U", "M", " ", "V", "I", "P">>,
         <<"P", "l", "a", "t", "i", "n", "u", "m", " ", "V", "I", "P">> >> }

\* normalize_tier (lines 25-45) on the characters of the tier
normalize_tier_text(s) ==
    IF s = <<>> THEN [out |-> None, hit |-> "empty"]
    ELSE LET t == str_upper(str_strip(s))
         IN  IF \E e \in tier_map : e[1] = t
             THEN [out |-> (CHOOSE e \in tier_map : e[1] = t)[2], hit |-> "map"]
             ELSE [out |-> str_title(t), hit |-> "none"]

\* normalize_weight (lines 48-75)
normalize_weight(s) ==
    IF s = <<>> THEN [out |-> None, hit |-> "empty"]
    ELSE LET t == str_strip(s)
             digits == {i \in 1..Len(t) : IsDigit(t[i])}
             kgAt == {i \in digits :
                         StartsAt(t, RunEnd(t, RunEnd(t, i, IsDigit) + 1, IsSpace) + 1,
                                  <<"k", "g">>)}
         IN  IF HasSub(t, <<"k", "g">>)
             THEN IF kgAt # {}
                  THEN [out |-> SubSeq(t, Least(kgAt), RunEnd(t, Least(kgAt), IsDigit))
                                \o Kg,
                        hit |-> "kg"]
                  ELSE [out |-> t, hit |-> "none"]
             ELSE IF digits # {}
                  THEN [out |-> IntToStr(LbsToKg(ParseInt(
                                    SubSeq(t, Least(digits),
                                           RunEnd(t, Least(digits), IsDigit))))) \o Kg,
                        hit |-> "lbs"]
                  ELSE [out |-> t, hit |-> "none"]

\* normalize_height (lines 78-111)
normalize_height(s) ==
    IF s = <<>> THEN [out |-> None, hit |-> "empty"]
    ELSE LET t == str_strip(s)
             \* (\d{2,3})\s*cm from position i with n digits
             cm(i, n) ==
                 /\ i + n - 1 <= Len(t)
                 /\ \A k \in i..(i + n - 1) : IsDigit(t[k])
                 /\ StartsAt(t, RunEnd(t, i + n, IsSpace) + 1, <<"c", "m">>)
             cmAt == {i \in 1..Len(t) : cm(i, 3) \/ cm(i, 2)}
             \* (\d+)[',]+(\d+) from position i
             sepEnd(i) == RunEnd(t, RunEnd(t, i, IsDigit) + 1, IsFeetSep)
             ft(i) ==
                 /\ IsDigit(t[i])
                 /\ sepEnd(i) > RunEnd(t, i, IsDigit)
                 /\ sepEnd(i) < Len(t) /\ IsDigit(t[sepEnd(i) + 1])
             ftAt == {i \in 1..Len(t) : ft(i)}
         IN  IF cmAt # {}
             THEN [out |-> SubSeq(t, Least(cmAt),
                                  Least(cmAt) + (IF cm(Least(cmAt), 3) THEN 2 ELSE 1))
                           \o <<" ", "c", "m">>,
                   hit |-> "cm"]
             ELSE IF ftAt # {}
             THEN [out |-> SubSeq(t, Least(ftAt), RunEnd(t, Least(ftAt), IsDigit))
                           \o <<"'">>
                           \o SubSeq(t, sepEnd(Least(ftAt)) + 1,
                                     RunEnd(t, sepEnd(Least(ftAt)) + 1, IsDigit)),
                   hit |-> "feet"]
             ELSE [out |-> t, hit |-> "none"]

\* the characters of s at the positions in keep, in order
RECURSIVE Select(_, _, _)
Select(s, keep, i) ==
    IF i > Len(s) THEN <<>>
    ELSE (IF i \in keep THEN <<s[i]>> ELSE <<>>) \o Select(s, keep, i + 1)

\* re.sub(r'\s*-\s*', '-', s): the spaces next to a dash go
TightDashes(s) ==
    LET nextToDash(i) ==
            \/ RunStart(s, i, IsSpace) > 1 /\ IsDash(s[RunStart(s, i, IsSpace) - 1])
            \/ RunEnd(s, i, IsSpace) < Len(s) /\ IsDash(s[RunEnd(s, i, IsSpace) + 1])
    IN  Select(s, {i \in 1..Len(s) : ~(IsSpace(s[i]) /\ nextToDash(i))}, 1)

\* re.sub(r'^(\d+)\s+([A-Z]+)', r'\1\2', s, flags=re.IGNORECASE)
JoinBustCup(s) ==
    LET d == RunEnd(s, 1, IsDigit)
        e == RunEnd(s, d + 1, IsSpace)
    IN  IF d >= 1 /\ e > d /\ e < Len(s) /\ IsAlpha(s[e + 1])
        THEN SubSeq(s, 1, d) \o SubSeq(s, e + 1, Len(s))
        ELSE s

\* normalize_measurements (lines 114-157)
normalize_measurements(s) ==
    IF s = <<>> THEN [out |-> None, hit |-> "empty"]
    ELSE LET m == JoinBustCup(TightDashes(SlashToDash(str_strip(s))))
             b == RunEnd(m, 1, IsDigit)
             c == RunEnd(m, b + 1, IsAlpha)
             \* ^(\d+)([A-Z]+)-(\d+)-(\d+)$
             w == RunEnd(m, c + 2, IsDigit)
             h == RunEnd(m, w + 2, IsDigit)
             full == /\ b >= 1 /\ c > b
                     /\ c < Len(m) /\ IsDash(m[c + 1]) /\ w > c + 1
                     /\ w < Len(m) /\ IsDash(m[w + 1]) /\ h > w + 1
                     /\ h = Len(m)
             \* ^(\d{2})([A-Z]+)[-\s]?(\d{2})(\d{2})$
             g == IF c < Len(m) /\ (IsDash(m[c + 1]) \/ IsSpace(m[c + 1])) THEN c + 1 ELSE c
             compact == /\ b = 2 /\ c > b
                        /\ Len(m) = g + 4
                        /\ \A k \in (g + 1)..(g + 4) : IsDigit(m[k])
         IN  IF full
             THEN [out |-> SubSeq(m, 1, b) \o str_upper(SubSeq(m, b + 1, c)) \o <<"-">>
                           \o SubSeq(m, c + 2, w) \o <<"-">> \o SubSeq(m, w + 2, h),
                   hit |-> "full"]
             ELSE IF compact
             THEN [out |-> SubSeq(m, 1, b) \o str_upper(SubSeq(m, b + 1, c)) \o <<"-">>
                           \o SubSeq(m, g + 1, g + 2) \o <<"-">> \o SubSeq(m, g + 3, g + 4),
                   hit |-> "compact"]
             ELSE [out |-> m, hit |-> "none"]

\* normalize_bust_size (lines 160-182)
normalize_bust_size(s) ==
    IF s = <<>> THEN [out |-> None, hit |-> "empty"]
    ELSE LET bust == str_upper(str_strip(s))
             d == RunEnd(bust, 1, IsDigit)
             e == RunEnd(bust, d + 1, IsSpace)
             spaced == d >= 1 /\ e > d /\ e < Len(bust)
                       /\ RunEnd(bust, e + 1, IsAlpha) = Len(bust)
             joined == d >= 1 /\ d < Len(bust) /\ RunEnd(bust, d + 1, IsAlpha) = Len(bust)
         IN  IF spaced THEN [out |-> bust, hit |-> "spaced"]
             ELSE IF joined
             THEN [out |-> SubSeq(bust, 1, d) \o <<" ">> \o SubSeq(bust, d + 1, Len(bust)),
                   hit |-> "joined"]
             ELSE [out |-> bust, hit |-> "none"]

\* the normalisation functions the claims name
Normalizers == {"name", "tier", "weight", "height", "measurements", "bust"}

normalize(fn, s) ==
    CASE fn = "name"         -> normalize_name(s)
      [] fn = "tier"         -> normalize_tier_text(s)
      [] fn = "weight"       -> normalize_weight(s)
      [] fn = "height"       -> normalize_height(s)
      [] fn = "measurements" -> normalize_measurements(s)
      [] fn = "bust"         -> normalize_bust_size(s)

\* characters of the enumerated texts
TextChars == {" ", "3", "4", "c", "D", "k", "g", "m", "/", "-", "'"}

\* texts of the kinds the docstrings give, too long to be enumerated
SampleTexts ==
    { <<"3", "4", "D", "D", "/", "2", "5", "/", "3", "4">>,
      <<"3", "4", "D", "D", "-", " ", "2", "6", "-", "3", "6">>,
      <<"3", "4", "C", "2", "6", "3", "6">>,
      <<"3", "4", " ", "D", "D">>,
      <<"1", "3", "0", " ", "l", "b", "s">>,
      <<"5", "5", " ", "k", "g">>,
      <<"1", "7", "0", " ", "c", "m">>,
      <<"U", "L", "T", "R", "A", " ", "V", "I", "P">>,
      <<"v", "i", "p">>,
      <<"g", "o", "l", "d">>,
      <<"N", "/", "A">>,
      <<"n", "a", "t", "u", "r", "a", "l">>,
      <<"D", "A", "I", "S", "Y", " ", "D", "U", "K", "E", "S">> }

Texts == SeqsUpTo(TextChars, MaxText) \cup SampleTexts

\* no field parsed yet
Unparsed == <<"Unparsed">>

\* _parse_profile of an adapter (dd.py 481-523, tdl.py): the text of one
\* field goes through its normalisation function
ParseField ==
    /\ pc = "profile"
    /\ profile_data.value = Unparsed
    /\ profile_data' = [profile_data EXCEPT
                           !.value = normalize(profile_data.field, profile_data.text).out]
    /\ UNCHANGED <<mgrVars, pc, result, pending_commits, cacheVars, crawlVars, loopVars,
                   idx, listing, cur, sidx, storeVars, dbFaults, fetchLog, fetchFailed,
                   faulted, saveFailed, saves, built, justSaved, cause, startDb, page,
                   changed, clean, fetcherVars>>

\* a run of DD at its first profile, the page of the profile fetched and
\* one of its fields about to be parsed
InitNorm ==
    /\ site_key = "discreet"
    /\ db = SeededStore
    /\ mpc = "running" /\ mresult = NewResult /\ runNo = MaxRuns
    /\ pc = "profile" /\ result = [NewResult EXCEPT !.total = 1] /\ pending_commits = 0
    /\ location_cache = <<>> /\ location_cache_loaded = FALSE
    /\ crawler_initialized = TRUE /\ browser = "open"
    /\ schedule_items = <<Item("u1", "Monday", Txt(<<"downtown", ",", "queen">>, "title"))>>
    /\ unique_profiles = <<"u1">> /\ idx = 1
    /\ listing = NoListing /\ cur = NoCur /\ sidx = 1
    /\ tx = db /\ pend = EmptyBag /\ sessOk = TRUE
    /\ dbFaults = MaxDbFaults /\ fetchLog = <<>> /\ fetchFailed = {} /\ faulted = {}
    /\ saveFailed = {}
    /\ saves = <<>> /\ built = EmptyBag /\ justSaved = FALSE /\ cause = ""
    /\ startDb = db /\ clean = TRUE
    /\ page = schedule_items /\ changed = FALSE
    /\ stop = FALSE
    /\ \E fn \in Normalizers, s \in Texts :
          profile_data = [tier |-> NoTier, field |-> fn, text |-> s, value |-> Unparsed]
    /\ NewCrawler

NextNorm == ParseField

SpecNorm == InitNorm /\ [][NextNorm]_vars

\* ------------------------------------------------------ dates of DD
\* A date is a record [year, month, day]; the page writes it without the
\* year, as "Mon, Dec 08".
\* bounds: days the page shows on either side of today
MaxAhead == 7

\* the years today is drawn from: a common year and a leap year
Years == {2027, 2028}

\* datetime(year, month, day) exists (it raises ValueError otherwise)
IsLeap(y) == (y % 4 = 0 /\ y % 100 # 0) \/ y % 400 = 0

DaysInMonth(y, m) ==
    IF m = 2 THEN (IF IsLeap(y) THEN 29 ELSE 28)
    ELSE IF m \in {4, 6, 9, 11} THEN 30 ELSE 31

ValidDate(y, m, d) == m \in 1..12 /\ d \in 1..DaysInMonth(y, m)

MkDate(y, m, d) == [year |-> y, month |-> m, day |-> d]

\* a.date() < b.date()
DateBefore(a, b) ==
    \/ a.year < b.year
    \/ a.year = b.year /\ a.month < b.month
    \/ a.year = b.year /\ a.month = b.month /\ a.day < b.day

\* the day after and the day before a date
NextDay(dt) ==
    IF dt.day < DaysInMonth(dt.year, dt.month) THEN MkDate(dt.year, dt.month, dt.day + 1)
    ELSE IF dt.month < 12 THEN MkDate(dt.year, dt.month + 1, 1)
    ELSE MkDate(dt.year + 1, 1, 1)

PrevDay(dt) ==
    IF dt.day > 1 THEN MkDate(dt.year, dt.month, dt.day - 1)
    ELSE IF dt.month > 1
         THEN MkDate(dt.year, dt.month - 1, DaysInMonth(dt.year, dt.month - 1))
    ELSE MkDate(dt.year - 1, 12, 31)

\* the date n days after dt (before it, for negative n)
RECURSIVE AddDays(_, _)
AddDays(dt, n) ==
    IF n = 0 THEN dt
    ELSE IF n > 0 THEN AddDays(NextDay(dt), n - 1)
    ELSE AddDays(PrevDay(dt), n + 1)

\* date.toordinal() and date.weekday(), from 1 for Monday
RECURSIVE DaysBeforeMonth(_, _)
DaysBeforeMonth(y, m) ==
    IF m = 1 THEN 0 ELSE DaysBeforeMonth(y, m - 1) + DaysInMonth(y, m - 1)

ToOrdinal(dt) ==
    LET y == dt.year - 1
    IN  y * 365 + (y \div 4) - (y \div 100) + (y \div 400)
          + DaysBeforeMonth(dt.year, dt.month) + dt.day

Weekday(dt) == ((ToOrdinal(dt) + 6) % 7) + 1

\* day_map (dd.py 119-127): keys and values
DayAbbrevs ==
    << <<"m", "o", "n">>, <<"t", "u", "e">>, <<"w", "e", "d">>, <<"t", "h", "u">>,
       <<"f", "r", "i">>, <<"s", "a", "t">>, <<"s", "u", "n">> >>

DayNames ==
    <<"Monday", "Tuesday", "Wednesday", "Thursday", "Friday", "Saturday", "Sunday">>

\* month_map (dd.py 150-154): the key of month m
MonthAbbrevs ==
    << <<"j", "a", "n">>, <<"f", "e", "b">>, <<"m", "a", "r">>, <<"a", "p", "r">>,
       <<"m", "a", "y">>, <<"j", "u", "n">>, <<"j", "u", "l">>, <<"a", "u", "g">>,
       <<"s", "e", "p">>, <<"o", "c", "t">>, <<"n", "o", "v">>, <<"d", "e", "c">> >>

\* the text the page gives for a date: "Mon, Dec 08"
FormatDate(dt) ==
    str_title(DayAbbrevs[Weekday(dt)]) \o <<",", " ">> \o str_title(MonthAbbrevs[dt.month])
      \o <<" ">> \o (IF dt.day < 10 THEN <<"0">> ELSE <<>>) \o IntToStr(dt.day)

\* r'([a-z]{3})\s+(\d{1,2})' matches s at position i
MonthDayAt(s, i) ==
    /\ i + 4 <= Len(s)
    /\ \A k \in i..(i + 2) : IsLower(s[k])
    /\ IsSpace(s[i + 3])
    /\ RunEnd(s, i + 3, IsSpace) < Len(s)
    /\ IsDigit(s[RunEnd(s, i + 3, IsSpace) + 1])

\* parse_dd_date returns None
NoDay == "None"

\* the year parse_dd_date gives the date (dd.py 160-164)
YearOf(today, month_num) ==
    IF month_num < today.month - 6 THEN today.year + 1 ELSE today.year

\* parse_dd_date(date_str, filter_past) called on the day `today`
parse_dd_date(date_str, filter_past, today) ==
    LET date_str_clean == str_lower(str_strip(date_str))
        days == {i \in 1..Len(DayAbbrevs) : StartsAt(date_str_clean, 1, DayAbbrevs[i])}
        day_of_week == DayNames[Least(days)]
        starts == {i \in 1..Len(date_str_clean) : MonthDayAt(date_str_clean, i)}
        at == Least(starts)
        month_abbrev == SubSeq(date_str_clean, at, at + 2)
        d1 == RunEnd(date_str_clean, at + 3, IsSpace) + 1
        d2 == IF d1 < Len(date_str_clean) /\ IsDigit(date_str_clean[d1 + 1]) THEN d1 + 1 ELSE d1
        day_num == ParseInt(SubSeq(date_str_clean, d1, d2))
        months == {m \in 1..Len(MonthAbbrevs) : MonthAbbrevs[m] = month_abbrev}
        month_num == Least(months)
        year == YearOf(today, month_num)
    IN  IF date_str = <<>> THEN NoDay
        ELSE IF days = {} THEN NoDay
        ELSE IF ~filter_past \/ starts = {} \/ months = {} THEN day_of_week
        ELSE IF ~ValidDate(year, month_num, day_num) THEN day_of_week
        ELSE IF DateBefore(MkDate(year, month_num, day_num), today) THEN NoDay
        ELSE day_of_week

\* the days today is drawn from
Todays ==
    {dt \in [year : Years, month : 1..12, day : 1..31] :
        ValidDate(dt.year, dt.month, dt.day)}

\* _parse_profile of DD (dd.py 670-696): the date of one schedule entry of
\* the profile page goes through parse_dd_date, which filters past dates
ParseDate ==
    /\ pc = "profile"
    /\ ~profile_data.parsed
    /\ profile_data' = [profile_data EXCEPT
                           !.value = parse_dd_date(profile_data.text, TRUE,
                                                   profile_data.today),
                           !.parsed = TRUE]
    /\ UNCHANGED <<mgrVars, pc, result, pending_commits, cacheVars, crawlVars, loopVars,
                   idx, listing, cur, sidx, storeVars, dbFaults, fetchLog, fetchFailed,
                   faulted, saveFailed, saves, built, justSaved, cause, startDb, page,
                   changed, clean, fetcherVars>>

\* a run of DD at its first profile on the day `today`, the page of the
\* profile fetched and the date of one schedule entry, which lies within
\* MaxAhead days of today, about to be parsed
InitDate ==
    /\ site_key = "discreet"
    /\ db = SeededStore
    /\ mpc = "running" /\ mresult = NewResult /\ runNo = MaxRuns
    /\ pc = "profile" /\ result = [NewResult EXCEPT !.total = 1] /\ pending_commits = 0
    /\ location_cache = <<>> /\ location_cache_loaded = FALSE
    /\ crawler_initialized = TRUE /\ browser = "open"
    /\ schedule_items = <<Item("u1", "Monday", Txt(<<"downtown", ",", "queen">>, "title"))>>
    /\ unique_profiles = <<"u1">> /\ idx = 1
    /\ listing = NoListing /\ cur = NoCur /\ sidx = 1
    /\ tx = db /\ pend = EmptyBag /\ sessOk = TRUE
    /\ dbFaults = MaxDbFaults /\ fetchLog = <<>> /\ fetchFailed = {} /\ faulted = {}
    /\ saveFailed = {}
    /\ saves = <<>> /\ built = EmptyBag /\ justSaved = FALSE /\ cause = ""
    /\ startDb = db /\ clean = TRUE
    /\ page = schedule_items /\ changed = FALSE
    /\ stop = FALSE
    /\ \E t \in Todays, k \in (0 - MaxAhead)..MaxAhead :
          profile_data = [tier |-> NoTier, today |-> t, date |-> AddDays(t, k),
                          text |-> FormatDate(AddDays(t, k)), value |-> NoDay,
                          parsed |-> FALSE]
    /\ NewCrawler

NextDate == ParseDate

SpecDate == InitDate /\ [][NextDate]_vars

\* ----------------------------------------------------------------- claims
\* run() has returned or raised and scrape_site has not yet taken over
Exited == pc \in {"done", "raised"}

UrlsOf(items) == {items[i].url : i \in 1..Len(items)}

\* position of the first schedule item that names profile u
FirstIdx(items, u) ==
    CHOOSE i \in 1..Len(items) :
        items[i].url = u /\ \A j \in 1..(i - 1) : items[j].url # u

Range(f) == {f[i] : i \in DOMAIN f}

\* profiles whose fetch-normalise-persist step is over
Finished == DOMAIN saves \cup fetchFailed \cup saveFailed

\* no later save of the run wrote the Listing that the save of u wrote
LastSave(u) ==
    \A v \in DOMAIN saves :
        (v # u /\ saves[v].lid = saves[u].lid)
            => FirstIdx(schedule_items, v) < FirstIdx(schedule_items, u)

\* the upsert of profile u is in the committed Store: its Listing row, and
\* the Schedule rows its save built
Persisted(u) ==
    /\ u \in DOMAIN saves
    /\ [id |-> saves[u].lid, name |-> saves[u].name] \in db.listings
    /\ LastSave(u) => saves[u].rows \sqsubseteq RowsOf(db, saves[u].lid)

HasDefault(store) == \E l \in store.locs : l.dflt

\* C1: a failure at a per-profile step is counted, recorded and followed by
\* the next profile; and when exactly one profile's fetch fails and nothing
\* else does, run() returns normally with errors = 1 and every other
\* unique profile of the schedule is persisted.
C1_FetchFailureIsolated ==
    /\ pc = "profile" =>
          /\ result.new + result.updated + result.errors = idx - 1
          /\ Len(result.details) = result.errors
          /\ result.errors = Cardinality(fetchFailed \cup saveFailed)
    /\ (Exited /\ Cardinality(fetchFailed) = 1 /\ saveFailed = {} /\ faulted = {}) =>
          /\ pc = "done"
          /\ result.errors = 1
          /\ result.total = Len(schedule_items)
          /\ \A u \in UrlsOf(schedule_items) \ fetchFailed : Persisted(u)

\* run() returned after one of two profiles failed to fetch and the other
\* was saved
C1_Witness ==
    /\ pc = "done"
    /\ Cardinality(fetchFailed) = 1 /\ saveFailed = {} /\ faulted = {}
    /\ Len(unique_profiles) = 2
    /\ result.errors = 1 /\ result.new = 1
    /\ fetchLog[1] \in fetchFailed

\* C2: an exception leaves run() if and only if the schedule fetch or the
\* browser initialisation failed, and a schedule-fetch failure means no
\* profile was processed; stated for the runs in which no database
\* operation fails for a reason outside the program.
C2_RaiseIffScheduleOrBrowser ==
    (Exited /\ faulted = {}) =>
        /\ (pc = "raised") <=> (cause \in {"schedule", "browser"})
        /\ cause = "schedule" => fetchLog = <<>>

\* C3: a second run of the same source against the unchanged page, with no
\* failure in either run, reports new = 0 and leaves every Listing's
\* Schedule rows (listing, day, Location id, multiplicity) as the first
\* run left them.
C3_SecondRunIdempotent ==
    (runNo >= 2 /\ pc = "done" /\ ~changed /\ clean) =>
        /\ result.new = 0
        /\ db.scheds = startDb.scheds

\* C4: when save_listing has returned for a Listing that existed and had
\* Schedule rows, the Listing's Schedule rows are exactly the rows built
\* from the current scrape.
C4_SchedulesReplaced ==
    (justSaved /\ ~cur.is_new /\ cur.had) => RowsOf(tx, cur.lid) = built

\* C5: in every committed state of a run, each Listing's Schedule rows are
\* its complete set from before the run or the complete set a save of
\* this run built for it.
C5_NoPartialScheduleSet ==
    mpc = "running" =>
        \A L \in {r.lid : r \in DOMAIN db.scheds \cup DOMAIN startDb.scheds} :
            \/ RowsOf(db, L) = RowsOf(startDb, L)
            \/ \E u \in DOMAIN saves :
                  saves[u].lid = L /\ RowsOf(db, L) = saves[u].rows

\* C6: when a database operation fails while profile k is saved (the Store
\* has a default Location, the final commit itself does not fail), what
\* was committed before stays and every later profile whose own fetch and
\* save meet no failure is persisted.
C6_LaterProfilesUnaffected ==
    (Exited /\ HasDefault(startDb) /\ "commit" \notin faulted) =>
        /\ startDb.listings \subseteq db.listings
        /\ \A k \in faulted :
             \A u \in UrlsOf(schedule_items) \ (faulted \cup fetchFailed) :
                FirstIdx(schedule_items, k) < FirstIdx(schedule_items, u)
                    => Persisted(u)

\* C7: whenever run() exits, by return or by raise, every upsert that
\* save_listing reported successful is committed; stated for the runs in
\* which no database operation fails for a reason outside the program.
C7_NoUpsertLeftUncommitted ==
    (Exited /\ faulted = {}) => \A u \in DOMAIN saves : Persisted(u)

\* C8: after a run that returned, every saved profile reference has exactly
\* one Listing, with one Schedule row per schedule item when none of its
\* k items is outcall, and distinct references (of distinct names) have
\* distinct Listings.
C8_OneListingPerProfile ==
    (pc = "done" /\ \A u, v \in DOMAIN saves : u # v => saves[u].name # saves[v].name) =>
        /\ \A u \in DOMAIN saves :
              /\ {l.id : l \in {m \in db.listings : m.name = saves[u].name}}
                   = {saves[u].lid}
              /\ saves[u].k = Len(ItemsFor(schedule_items, u))
                   => BagCardinality(RowsOf(db, saves[u].lid)) = saves[u].k
        /\ \A u, v \in DOMAIN saves : u # v => saves[u].lid # saves[v].lid

\* C9: profiles are fetched in the order of their first appearance in the
\* schedule, none is skipped and none fetched twice, all are fetched when
\* run() returns, and every fetched profile but the one in progress has
\* finished its normalise-and-persist step.
C9_OneAtATimeInOrder ==
    /\ \A i, j \in 1..Len(fetchLog) :
          i < j => FirstIdx(schedule_items, fetchLog[i]) < FirstIdx(schedule_items, fetchLog[j])
    /\ \A u \in UrlsOf(schedule_items) :
          (fetchLog # <<>>
           /\ FirstIdx(schedule_items, u)
                < FirstIdx(schedule_items, fetchLog[Len(fetchLog)]))
              => u \in Range(fetchLog)
    /\ pc = "done" => Range(fetchLog) = UrlsOf(schedule_items)
    /\ \A i \in 1..Len(fetchLog) :
          (fetchLog[i] \in Finished) <=> (i < Len(fetchLog) \/ pc \notin {"save", "sched"})

\* run() returned after a page that names the second-listed profile first
C9_Witness ==
    /\ pc = "done"
    /\ Len(schedule_items) = 2
    /\ fetchLog = <<"u2", "u1">>
    /\ DOMAIN saves = {"u1", "u2"}

\* C10 (as amended): scrape_site raises exactly when the site key is not
\* configured; for every configured key it returns a ScrapeResult, which
\* reports one error when the site has no scraper or when run() raised.
C10_ReturnsForConfiguredKeys ==
    /\ mpc = "raised" => ~get_site_config(site_key)
    /\ (runNo > 0 /\ get_site_config(site_key)) => mpc \in {"running", "returned"}
    /\ (runNo > 0 /\ ~get_site_config(site_key)) => mpc = "raised"
    /\ (mpc = "returned" /\ ~get_scraper(site_key)) => mresult = FailResult
    /\ (mpc = "returned" /\ cause # "") => mresult = FailResult

\* scrape_site returned a result after the browser could not be started
C10_Witness ==
    /\ mpc = "returned"
    /\ cause = "browser"
    /\ mresult.errors = 1

\* C10 (as stated): scrape_site never raises to its caller.
C10_NeverRaises == mpc # "raised"

\* C11: when run() returns normally, total is the number of unique profiles
\* processed, so total = new + updated + errors, also when a profile has
\* several schedule items.
C11_TotalCountsProfiles ==
    pc = "done" =>
        /\ result.total = Len(unique_profiles)
        /\ result.total = result.new + result.updated + result.errors

\* C12: however many profiles fail in a run, the list of error details
\* that the result holds, and the list it emits, never has more than 10
\* entries, while errors counts every failure.
C12_ErrorDetailsCapped ==
    /\ Len(result.details) <= ErrorDetailsEmitted
    /\ Len(to_dict(result).details) <= ErrorDetailsEmitted
    /\ pc \in {"profile", "save", "sched", "done"} =>
          result.errors = Cardinality(fetchFailed \cup saveFailed)

\* C13: once the stop signal is raised during a run, no further profile
\* fetch is started (the fetch in flight, one step here, completes).
C13_NoFetchAfterStop ==
    [][(stop /\ stop') => Len(fetchLog') <= Len(fetchLog)]_vars

\* a step of save_listing that resolves the location of one schedule
ResolveStep == pc = "sched" /\ sidx' = sidx + 1 /\ ~IsOutcall(CurLoc)

\* the Location id of the Schedule that this step built
ChosenLoc ==
    (CHOOSE r \in DOMAIN built' : CopiesIn(r, built') > CopiesIn(r, built)).loc

\* what the step resolves: parsed town and detail, and the loaded cache
Resolving ==
    Resolve(location_cache, location_cache_loaded, tx.locs, short_name(site_key), CurLoc)

\* the Locations known to the run: (town, detail) entries of its cache
KnownLocs(cache) ==
    { cache[i] : i \in { j \in 1..Len(cache) :
                            cache[j].k[1] \notin {TownOnly, DefaultKey[1]} } }

\* strategy n (1..5) accepts the known Location e for town t, detail d and
\* normalised detail nd, all in small letters
StrategyHit(n, e, t, d, nd) ==
    CASE n = 1 -> e.k = <<t, d>>
      [] n = 2 -> nd # <<>> /\ nd # d /\ e.k = <<t, nd>>
      [] n = 3 -> t # <<>> /\ e.k = <<t, <<"unknown">> >>
      [] n = 4 -> t # <<>> /\ e.k[1] = t
      [] n = 5 -> t # <<>> /\ e.k[1] # <<>>
                  /\ (Contains(e.k[1], t) \/ Contains(t, e.k[1]))

\* the strategies that accept some known Location
HitStrategies(cache, t, d, nd) ==
    { n \in 1..5 : \E e \in KnownLocs(cache) : StrategyHit(n, e, t, d, nd) }

\* C14: the Location a resolution returns is one that the first strategy,
\* in the order exact, normalised, (town, unknown), town, partial town,
\* accepts; when no strategy accepts any, it is a Location created in this
\* step (known-town source only) or else the default.
C14_StrategyPrecedence ==
    [][ResolveStep =>
          LET c  == Resolving.cache
              t  == Lower(Resolving.town).w
              d  == Lower(Resolving.detail).w
              nd == Lower(NormalizeDetail(Resolving.detail)).w
              H  == HitStrategies(c, t, d, nd)
              first == CHOOSE n \in H : \A m \in H : n <= m
          IN  IF H # {}
              THEN \E e \in KnownLocs(c) :
                      StrategyHit(first, e, t, d, nd) /\ e.id = ChosenLoc
              ELSE \/ /\ short_name(site_key) = "SFT"
                      /\ ChosenLoc \notin {l.id : l \in tx.locs}
                      /\ \E l \in tx'.locs :
                            l.id = ChosenLoc /\ l.town = Resolving.town
                            /\ l.detail = Resolving.detail
                   \/ /\ \A l \in tx'.locs : l.id = ChosenLoc => l \in tx.locs
                      /\ ChosenLoc = get_default_location(c)]_vars

\* a run stored a Schedule for "DOWNTOWN UNIVERSITY AND QUEEN" at Location
\* 2, found by its normalised detail while Location 3 has the same town
C14_Witness ==
    /\ pc = "done"
    /\ Len(page) = 1
    /\ page[1].loc = Txt(<<"downtown", "university", "and", "queen">>, "upper")
    /\ {2, 3} \subseteq {l.id : l \in db.locs}
    /\ \E r \in DOMAIN db.scheds : r.loc = 2

\* the source is the one with a known town vocabulary and the town of the
\* location being resolved is a known town, whatever its letter case
KnownTownCase ==
    /\ short_name(site_key) = "SFT"
    /\ Resolving.town.w \in {t.w : t \in KNOWN_TOWNS}

\* the Location chosen by the step is a row this step inserted for the
\* parsed (town, detail)
CreatedNow ==
    /\ ChosenLoc \notin {l.id : l \in tx.locs}
    /\ \E l \in tx'.locs :
          l.id = ChosenLoc /\ l.town = Resolving.town /\ l.detail = Resolving.detail

ResolvedId(raw) ==
    LET res == Resolve(location_cache, location_cache_loaded, tx.locs,
                       short_name(site_key), raw)
    IN  IF res.found # NoId THEN res.found
        ELSE IF res.create THEN NextId(tx.locs)
        ELSE get_default_location(res.cache)

\* C16: location resolution is case-insensitive: whenever save_listing is
\* about to resolve a raw location, the same text in any other letter case
\* resolves, for the same Store contents and cache, to the same Location id.
C16_CaseInsensitive ==
    (pc = "sched" /\ sidx <= Len(listing.schedules) /\ ~IsOutcall(CurLoc)) =>
        \A c \in {"upper", "title", "lower"} :
            ResolvedId(Txt(CurLoc.w, c)) = ResolvedId(CurLoc)

\* C17: a location that no strategy matches is never fatal: when a run has
\* ended in which the schedule page was read, no profile fetch failed and
\* no database operation was made to fail, the run has returned, no profile
\* is counted as failed, and every Schedule in the Store has a Location of
\* the Store (the default one when nothing matched).
C17_NotFoundNotFatal ==
    (Exited /\ cause \notin {"browser", "schedule"} /\ dbFaults = 0 /\ fetchFailed = {}) =>
        /\ pc = "done"
        /\ saveFailed = {}
        /\ result.errors = 0
        /\ \A r \in DOMAIN db.scheds : \E l \in db.locs : l.id = r.loc

\* C18: for every site adapter, when the schedule item carries a tier hint
\* and the profile page yields a different tier, the normalised listing has
\* the tier of the schedule item.
C18_ScheduleTierWins ==
    (/\ pc = "save"
     /\ schedule_items[1].tier # NoTier
     /\ profile_data.tier # NoTier
     /\ profile_data.tier # schedule_items[1].tier)
    => listing.tier = schedule_items[1].tier

\* C19: any two consecutive fetch calls of one fetcher instance are released
\* by its rate limiter at least the configured interval apart.
C19_ReleasesSpaced ==
    \A i \in 2..Len(releases) : releases[i] - releases[i - 1] >= rate_limit(site_key)

\* a run made three fetch calls; the second was held back by the limiter for
\* exactly the interval and the third, coming after retries, was not held
C19_Witness ==
    /\ pc = "done"
    /\ CrawlerKind(site_key) = "static"
    /\ Len(releases) = 3
    /\ releases[2] - releases[1] = rate_limit(site_key)
    /\ releases[3] - releases[2] > rate_limit(site_key)

\* the profile whose page the k-th fetch call of the run asked for (the
\* first call asks for the schedule page)
ProfileOfCall(k) == unique_profiles[k - 1]

\* each wait is the previous one times 2 (static) or times 1.5 (stealth)
Growing(ws, kind) ==
    \A i \in 1..(Len(ws) - 1) :
        IF kind = "stealth" THEN 2 * ws[i + 1] = 3 * ws[i] ELSE ws[i + 1] = 2 * ws[i]

\* C20: a fetch whose requests keep failing makes at most max_retries
\* attempts, with a wait between two attempts that grows exponentially; a
\* fetch raises only after max_retries failed attempts; and when the run has
\* ended after its schedule page was read, it has returned, each profile
\* whose fetch raised is recorded as one failure of that profile, and every
\* other profile was fetched and saved.
C20_BoundedRetriesThenSkip ==
    /\ attempt <= max_retries
    /\ Growing(waits, CrawlerKind(site_key))
    /\ \A k \in 1..Len(calls) :
          /\ calls[k].tries <= max_retries
          /\ Len(calls[k].waits) = calls[k].tries - 1
          /\ Growing(calls[k].waits, CrawlerKind(site_key))
          /\ ~calls[k].ok => calls[k].tries = max_retries
    /\ (Exited /\ Len(calls) > 0 /\ calls[1].ok /\ cause # "schedule") =>
          /\ pc = "done"
          /\ Len(calls) = Len(unique_profiles) + 1
          /\ \A k \in 2..Len(calls) :
                IF calls[k].ok
                THEN ProfileOfCall(k) \in DOMAIN saves
                ELSE /\ ProfileOfCall(k) \in fetchFailed
                     /\ Cardinality({i \in 1..Len(result.details) :
                                        result.details[i] = ProfileOfCall(k)}) = 1
          /\ result.errors = Cardinality({k \in 2..Len(calls) : ~calls[k].ok})

\* a static fetcher made three attempts for the first profile, waiting 1 s
\* and 2 s, and raised; the run went on, saved the second profile and
\* returned
C20_Witness ==
    /\ pc = "done"
    /\ CrawlerKind(site_key) = "static"
    /\ Len(calls) = 3
    /\ calls[2] = [tries |-> max_retries, waits |-> <<100, 200>>, ok |-> FALSE]
    /\ calls[3].ok
    /\ result.errors = 1
    /\ unique_profiles[2] \in DOMAIN saves

\* C21: runs of different sources gathered by scrape_all are independent: no
\* step of the other run changes this run's rate-limiter state, its result
\* counters, or the upserts it has made and has yet to commit (the rows of
\* its transaction, those committed, and whether its session is usable).
C21_RunsIndependent ==
    [][(OtherCommit \/ OtherRollback \/ OtherFlushFails) =>
          UNCHANGED <<last_request_time, result, pending_commits, tx, pend, db, sessOk>>]_vars

\* C22: once 30 requests have been counted the whole session of the stealth
\* crawler is torn down and rebuilt before the next navigation: no browser
\* session navigates for more than 30 fetch calls, and the counter of
\* requests never stays at 30.
C22_SessionRecycled ==
    /\ crawler.served <= RefreshEvery
    /\ crawler.request_count < RefreshEvery

\* a session has served its thirtieth fetch call
C22_Witness ==
    /\ crawler.served = RefreshEvery
    /\ fpc = "returned"

\* the handles of the crawler and what is open behind them are released
Uninitialized(c) ==
    /\ c.page = "none" /\ ~c.context /\ ~c.browser /\ ~c.playwright
    /\ ~c.orphan

\* C23: when a run of the stealth site has ended, by returning or by
\* raising (schedule fetch or browser initialisation), with or without
\* profiles that failed, the page, the context, the browser and the driver
\* of its crawler are released and nothing of the session is left open.
C23_ClosedAtRunEnd ==
    (site_key = "discreet" /\ mpc \in {"returned", "raised"}) => Uninitialized(crawler)

\* a run ended by a failed schedule fetch after its browser was dropped
\* without being closed
C23_Witness ==
    /\ site_key = "discreet" /\ mpc = "returned"
    /\ cause = "schedule"
    /\ crawler.faults = MaxSessionFaults
    /\ Uninitialized(crawler)

\* C24: the stealth crawler reinitialises a dead session transparently: no
\* navigation is made on a page of a session that was torn down, an
\* attempt in progress has a valid session or will rebuild it, and a fetch
\* raises only when its attempts are exhausted or a launch of the browser
\* failed.
C24_TransparentReinit ==
    /\ ~crawler.staleNav
    /\ (site_key = "discreet" /\ fpc = "raised") =>
          (crawler.launchFailed \/ calls[Len(calls)].tries = max_retries)

\* C25: every normalisation function returns for every text, and a text
\* that matches none of the patterns of the function (the function falls
\* through to its last return) is returned as it was given.
C25_UnmatchedUnchanged ==
    ("field" \in DOMAIN profile_data /\ profile_data.value # Unparsed) =>
        (normalize(profile_data.field, profile_data.text).hit = "none" =>
            profile_data.value = profile_data.text)

\* C26: when run() has returned normally, every profile whose save was
\* counted in new or updated has its Listing and the Schedules of that save
\* in the committed Store: nothing that happened while a later profile was
\* saved discarded it.
C26_CountedUpsertsCommitted ==
    pc = "done" => \A u \in DOMAIN saves : Persisted(u)

\* the Schedule row r of store refers to a Listing row of store
ListingExists(store, r) == \E l \in store.listings : l.id = r.lid

\* the Schedule row r of store refers to a Location row of store
LocationExists(store, r) == \E l \in store.locs : l.id = r.loc

\* C27: every Schedule row in the committed Store refers to a Listing row
\* and to a Location row of the committed Store, whatever auto-creations,
\* failures and rollbacks the run went through.
C27_NoDanglingReference ==
    \A r \in DOMAIN db.scheds : ListingExists(db, r) /\ LocationExists(db, r)

\* the Location ids of the Schedule rows that the save in progress built
\* for the schedule entries of one day
BuiltLocs(day) == {r.loc : r \in {q \in DOMAIN built : q.day = day}}

\* C28: within a run, the same raw location string resolves to the same
\* Location id every time: the Schedule rows a save built for two entries
\* with the same location string have the same Location, whatever was
\* resolved or created between them.
C28_SameStringSameLocation ==
    pc = "sched" =>
        \A i, j \in 1..Len(listing.schedules) :
            listing.schedules[i].loc = listing.schedules[j].loc =>
                \A a \in BuiltLocs(listing.schedules[i].day),
                   b \in BuiltLocs(listing.schedules[j].day) : a = b

\* the sum of the first n entries of ws
RECURSIVE SumTo(_, _)
SumTo(ws, n) == IF n = 0 THEN 0 ELSE ws[n] + SumTo(ws, n - 1)

\* the time at which finished fetch call k sent its j-th request: it sends
\* the first when the limiter releases it, and each later one after the
\* request before it has failed and the backoff that follows has passed
SentAt(k, j) == releases[k] + (j - 1) * RequestTime + SumTo(calls[k].waits, j - 1)

\* the requests of the finished fetch calls, in the order they were sent
Requests == {r \in (1..Len(calls)) \X (1..max_retries) : r[2] <= calls[r[1]].tries}

\* request q is the one sent next after request r
NextRequest(r, q) ==
    \/ q[1] = r[1] /\ q[2] = r[2] + 1
    \/ q[1] = r[1] + 1 /\ q[2] = 1 /\ r[2] = calls[r[1]].tries

\* C29: any two consecutive requests sent by one lightweight fetcher, retry
\* attempts counted as requests, are at least the configured interval apart,
\* the first request of a fetch that follows a fetch with retries included.
C29_RequestsSpaced ==
    CrawlerKind(site_key) = "static" =>
        \A r, q \in Requests :
            NextRequest(r, q) =>
                SentAt(q[1], q[2]) - SentAt(r[1], r[2]) >= rate_limit(site_key)

\* C30: parse_dd_date with filter_past=True gives None for a well-formed
\* date string whose date is before today, and the full name of its day of
\* the week for today and every later date, whatever today's month and the
\* month of the string, the turn of the year included.
C30_PastDatesFiltered ==
    ("date" \in DOMAIN profile_data /\ profile_data.parsed) =>
        profile_data.value =
            IF DateBefore(profile_data.date, profile_data.today) THEN NoDay
            ELSE DayNames[Weekday(profile_data.date)]

====
